--------------------------- MODULE AccountsProofs ---------------------------
(***************************************************************************)
(* What holds of the company badge and of accounts with their codes, for   *)
(* any users, mailboxes, companies, links, addresses and handlers.         *)
(***************************************************************************)
EXTENDS Accounts, CompanyBadge, TLAPS

----------------------------------------------------------------------------
(* The badge.  While no user has two handlers, what a handler has seen of  *)
(* its user is still so: whoever asks for a link has no badge, and from    *)
(* the statement that names the mailbox in the profile on, every link that *)
(* was mailed to the user and not opened was mailed to that mailbox.       *)

BadgeTypeInv ==
  /\ members \in [Staffers -> Member]
  /\ links \in [LinkIds -> Link \cup {None}]
  /\ usedMail \in [Mailboxes -> Staffers \cup {None}]
  /\ bcalls \in [Calls -> BadgeCall \cup {None}]
  /\ badges \subseteq Staffers \X Mailboxes
  /\ badgesApart \in BOOLEAN

(* The unique index on verification_email_hash.                            *)
HashesDiffer ==
  \A u, v \in Staffers :
    u # v /\ members[u].hash # None => members[u].hash # members[v].hash

(* A link that is under way opens the mailbox the profile names.           *)
LinkOK(t) ==
  links[t] # None /\ links[t].mailed /\ ~links[t].used =>
    members[links[t].user].hash = links[t].email

Asking   == {"checkUsed", "checkPending", "clear", "insertLink", "setEmail", "mail"}
Opening  == {"useLink", "readHash", "recordUsed", "verify"}
HasLink  == {"setEmail", "mail", "useLink"}
Clearing == {"insertLink", "setEmail"}

BadgeCallOK(k) ==
  k # None =>
    /\ k.at \in Asking => ~members[k.user].verified
    /\ k.at \in Clearing =>
         \A t \in LinkIds : links[t] # None /\ links[t].user = k.user => links[t].used \/ ~links[t].mailed
    /\ k.at = "insertLink" /\ k.resend => members[k.user].hash = k.email
    /\ k.at \in HasLink =>
         k.link \in LinkIds
           /\ (links[k.link] # None => links[k.link].user = k.user /\ links[k.link].email = k.email)
    /\ k.at \in {"mail"} \cup Opening => members[k.user].hash = k.email
    /\ k.at \in {"recordUsed", "verify"} => k.hash = k.email
    /\ k.at = "verify" => usedMail[k.email] # None

BadgeOK(u) ==
  members[u].verified =>
    /\ members[u].hash \in Mailboxes
    /\ <<u, members[u].hash>> \in badges
    /\ usedMail[members[u].hash] # None

OneCallEach ==
  \A c, d \in Calls : c # d /\ bcalls[c] # None /\ bcalls[d] # None => bcalls[c].user # bcalls[d].user

BadgeInv ==
  /\ BadgeTypeInv
  /\ HashesDiffer
  /\ badgesApart =>
       /\ OneCallEach
       /\ \A t \in LinkIds : LinkOK(t)
       /\ \A c \in Calls : BadgeCallOK(bcalls[c])
       /\ \A u \in Staffers : BadgeOK(u)

LEMMA BadgeCallKinds ==
  ASSUME NEW k \in BadgeCall
  PROVE  /\ k.user \in Staffers
         /\ k.at \in BadgeStages => k \in MailboxCall /\ k.email \in Mailboxes
         /\ k.at \in {"dropLinks", "writeCompany"} => k \in CompanyCall
BY DEF BadgeCall, MailboxCall, CompanyCall, BadgeStages

LEMMA BadgesInitOK == BadgesInit => BadgeInv
<1> SUFFICES ASSUME BadgesInit PROVE BadgeInv
  OBVIOUS
<1>1. badgesApart \in BOOLEAN
  BY Zenon DEF BadgesInit
<1>2. BadgeTypeInv
  BY <1>1 DEF BadgesInit, BadgeTypeInv, Member
<1> QED
  BY <1>2 DEF BadgesInit, BadgeInv, HashesDiffer, OneCallEach, LinkOK, BadgeCallOK, BadgeOK

(* A handler of user u takes a step: it writes nobody else's profile and   *)
(* links, takes a new link from those nobody holds, and forgets no used    *)
(* mailbox.  What the other handlers have seen is then still so.           *)
LEMMA OwnStep ==
  ASSUME BadgeInv, badgesApart, BadgeTypeInv', HashesDiffer',
         NEW c \in Calls, NEW u \in Staffers,
         \A d \in Calls \ {c} : bcalls'[d] = bcalls[d] /\ (bcalls[d] # None => bcalls[d].user # u),
         bcalls'[c] # None => bcalls'[c].user = u,
         \A v \in Staffers \ {u} : members'[v] = members[v],
         \A t \in LinkIds :
           \/ links'[t] = links[t]
           \/ links'[t] = None /\ links[t].user = u
           \/ links[t] = None /\ UnusedLink(t) /\ links'[t].user = u
           \/ links[t] # None /\ links[t].user = u /\ links'[t].user = u
                /\ links'[t].email = links[t].email,
         \A e \in Mailboxes : usedMail[e] # None => usedMail'[e] # None,
         badges \subseteq badges',
         \A t \in LinkIds : links'[t] # None /\ links'[t].user = u => LinkOK(t)',
         BadgeCallOK(bcalls[c])', BadgeOK(u)'
  PROVE  BadgeInv'
<1>1. OneCallEach'
  BY DEF BadgeInv, OneCallEach
<1>2. ASSUME NEW t \in LinkIds PROVE LinkOK(t)'
  <2>1. CASE links'[t] = None \/ links'[t].user = u
    BY <2>1 DEF LinkOK
  <2>2. CASE links'[t] # None /\ links'[t].user # u
    <3>1. links'[t] = links[t]
      BY <2>2
    <3>2. links[t].user \in Staffers
      BY <2>2, <3>1 DEF BadgeInv, BadgeTypeInv, Link
    <3> QED
      BY <2>2, <3>1, <3>2 DEF LinkOK, BadgeInv
  <2> QED
    BY <2>1, <2>2
<1>3. ASSUME NEW d \in Calls PROVE BadgeCallOK(bcalls[d])'
  <2> SUFFICES ASSUME d # c, bcalls[d] # None PROVE BadgeCallOK(bcalls[d])'
    BY DEF BadgeCallOK
  <2> DEFINE k == bcalls[d]
  <2>1. bcalls'[d] = k /\ k.user # u /\ k \in BadgeCall /\ BadgeCallOK(k)
    BY DEF BadgeInv, BadgeTypeInv
  <2>2. k.user \in Staffers /\ members'[k.user] = members[k.user]
    BY <2>1, BadgeCallKinds
  <2>3. \A t \in LinkIds : links'[t] # None /\ links'[t].user = k.user => links'[t] = links[t]
    BY <2>1
  <2>4. k.link \in LinkIds /\ links'[k.link] # None /\ k.at \in HasLink
          => links'[k.link].user = k.user /\ links'[k.link].email = k.email
    <3> SUFFICES ASSUME k.link \in LinkIds, links'[k.link] # None, k.at \in HasLink
                 PROVE  links'[k.link].user = k.user /\ links'[k.link].email = k.email
      OBVIOUS
    <3>1. ~UnusedLink(k.link)
      BY DEF UnusedLink, RowIds, BadgeInv, BadgeTypeInv
    <3> QED
      BY <2>1, <3>1 DEF BadgeCallOK
  <2>5. k.at = "verify" /\ usedMail[k.email] # None => usedMail'[k.email] # None
    BY <2>1, BadgeCallKinds DEF BadgeStages
  <2> HIDE DEF k
  <2> QED
    BY <2>1, <2>2, <2>3, <2>4, <2>5 DEF BadgeCallOK, Asking, Opening, Clearing, HasLink
<1>4. ASSUME NEW v \in Staffers PROVE BadgeOK(v)'
  BY DEF BadgeInv, BadgeOK
<1> QED
  BY <1>1, <1>2, <1>3, <1>4 DEF BadgeInv

(* The same for a handler in progress, which has its user for itself.      *)
LEMMA HandlerStep ==
  ASSUME BadgeInv, NEW c \in Calls, NEW u \in Staffers, bcalls[c] # None, bcalls[c].user = u,
         BadgeTypeInv', HashesDiffer', badgesApart' => badgesApart,
         \A d \in Calls \ {c} : bcalls'[d] = bcalls[d],
         bcalls'[c] # None => bcalls'[c].user = u,
         \A v \in Staffers \ {u} : members'[v] = members[v],
         \A t \in LinkIds :
           \/ links'[t] = links[t]
           \/ links'[t] = None /\ links[t].user = u
           \/ links[t] = None /\ UnusedLink(t) /\ links'[t].user = u
           \/ links[t] # None /\ links[t].user = u /\ links'[t].user = u
                /\ links'[t].email = links[t].email,
         \A e \in Mailboxes : usedMail[e] # None => usedMail'[e] # None,
         badges \subseteq badges',
         badgesApart' =>
           /\ \A t \in LinkIds : links'[t] # None /\ links'[t].user = u => LinkOK(t)'
           /\ BadgeCallOK(bcalls[c])' /\ BadgeOK(u)'
  PROVE  BadgeInv'
<1>1. CASE ~badgesApart'
  BY <1>1 DEF BadgeInv
<1>2. CASE badgesApart'
  <2>1. \A d \in Calls \ {c} : bcalls'[d] = bcalls[d] /\ (bcalls[d] # None => bcalls[d].user # u)
    BY <1>2 DEF BadgeInv, OneCallEach
  <2> QED
    BY <1>2, <2>1, OwnStep
<1> QED
  BY <1>1, <1>2

(* And for a handler that writes nothing.                                  *)
LEMMA LookStep ==
  ASSUME BadgeInv, NEW c \in Calls, bcalls[c] # None,
         NEW k \in BadgeCall \cup {None}, k # None => k.user = bcalls[c].user,
         bcalls' = [bcalls EXCEPT ![c] = k],
         UNCHANGED <<members, links, usedMail, badges, badgesApart>>,
         badgesApart => BadgeCallOK(k)
  PROVE  BadgeInv'
<1>1. PICK u \in Staffers : u = bcalls[c].user
  BY BadgeCallKinds DEF BadgeInv, BadgeTypeInv
<1>2. BadgeTypeInv' /\ HashesDiffer'
  BY DEF BadgeInv, BadgeTypeInv, HashesDiffer
<1>3. BadgeCallOK(k) => BadgeCallOK(bcalls[c])'
  BY DEF BadgeInv, BadgeTypeInv, BadgeCallOK
<1>4. badgesApart => BadgeOK(u)' /\ \A t \in LinkIds : LinkOK(t)'
  BY DEF BadgeInv, LinkOK, BadgeOK
<1>5. (\A d \in Calls \ {c} : bcalls'[d] = bcalls[d]) /\ bcalls'[c] = k
  BY DEF BadgeInv, BadgeTypeInv
<1> QED
  BY <1>1, <1>2, <1>3, <1>4, <1>5, HandlerStep

(* A handler that starts is the only one of its user, or ends what         *)
(* badgesApart says.                                                       *)
LEMMA StartStep ==
  ASSUME BadgeInv, NEW c \in Calls, NEW k \in BadgeCall, BStarts(c, k),
         UNCHANGED <<members, links, usedMail, badges>>,
         badgesApart => BadgeCallOK(k)
  PROVE  BadgeInv'
<1>1. BadgeTypeInv' /\ HashesDiffer'
  BY DEF BStarts, BadgeInv, BadgeTypeInv, HashesDiffer
<1>2. CASE ~badgesApart'
  BY <1>1, <1>2 DEF BadgeInv
<1>3. CASE badgesApart'
  <2>1. badgesApart /\ \A d \in RowIds(bcalls) : bcalls[d].user # k.user
    BY <1>3 DEF BStarts
  <2>2. bcalls'[c] = k /\ \A d \in Calls \ {c} : bcalls'[d] = bcalls[d]
    BY DEF BStarts, BadgeInv, BadgeTypeInv
  <2>3. \A d \in Calls \ {c} : bcalls[d] # None => bcalls[d].user # k.user
    BY <2>1 DEF RowIds, BadgeInv, BadgeTypeInv
  <2>4. BadgeCallOK(bcalls[c])'
    BY <2>1, <2>2 DEF BadgeCallOK
  <2>5. k.user \in Staffers
    BY BadgeCallKinds
  <2>6. BadgeOK(k.user)' /\ \A t \in LinkIds : LinkOK(t)'
    BY <2>1, <2>5 DEF BadgeInv, BadgeOK, LinkOK
  <2> QED
    BY <1>1, <2>1, <2>2, <2>3, <2>4, <2>5, <2>6, OwnStep
<1> QED
  BY <1>2, <1>3

----------------------------------------------------------------------------

LEMMA BadgeStartsOK ==
  ASSUME BadgeInv, NEW c \in Calls, BadgeStarts(c)
  PROVE  BadgeInv'
<1>1. ASSUME NEW u \in Staffers, NEW e \in Mailboxes, NEW at \in {"checkUsed", "clear"},
             ~members[u].verified, BStarts(c, BCall(at, u, e, None)),
             UNCHANGED <<members, links, usedMail, badges>>
      PROVE  BadgeInv'
  <2> DEFINE k == BCall(at, u, e, None)
  <2>1. k \in BadgeCall
    BY DEF BCall, BadgeCall, MailboxCall, CompanyCall, BadgeStages
  <2>2. BadgeCallOK(k)
    BY <1>1 DEF BCall, BadgeCallOK, Asking, Clearing, HasLink, Opening
  <2>3. BStarts(c, k)
    BY <1>1
  <2> HIDE DEF k
  <2> QED
    BY <1>1, <2>1, <2>2, <2>3, StartStep
<1>2. ASSUME NEW u \in Staffers, NEW e \in Mailboxes,
             RequestVerification(c, u, e) \/ UpdateVerificationEmail(c, u, e)
      PROVE  BadgeInv'
  BY <1>1, <1>2 DEF RequestVerification, UpdateVerificationEmail
<1>3. ASSUME NEW u \in Staffers, NEW company \in Companies, ChangeCompany(c, u, company)
      PROVE  BadgeInv'
  <2> DEFINE k == [BCall("dropLinks", u, None, None) EXCEPT !.company = company]
  <2>1. k \in BadgeCall
    BY DEF BCall, BadgeCall, MailboxCall, CompanyCall, BadgeStages
  <2>2. BadgeCallOK(k)
    BY DEF BCall, BadgeCallOK, Asking, Clearing, HasLink, Opening
  <2>3. BStarts(c, k)
    BY <1>3 DEF ChangeCompany
  <2> HIDE DEF k
  <2> QED
    BY <1>3, <2>1, <2>2, <2>3, StartStep DEF ChangeCompany
<1>4. ASSUME NEW t \in LinkIds, ConfirmVerification(c, t)
      PROVE  BadgeInv'
  <2> DEFINE k == BCall("useLink", links[t].user, links[t].email, t)
  <2>1. links[t] \in Link
    BY <1>4 DEF ConfirmVerification, BadgeInv, BadgeTypeInv
  <2>2. k \in BadgeCall
    BY <2>1 DEF BCall, BadgeCall, MailboxCall, BadgeStages, Link
  <2>3. badgesApart => LinkOK(t)
    BY DEF BadgeInv
  <2>4. badgesApart => BadgeCallOK(k)
    BY <1>4, <2>1, <2>3
       DEF ConfirmVerification, LinkOK, Link, BCall, BadgeCallOK, Asking, Clearing, HasLink, Opening
  <2>5. BStarts(c, k)
    BY <1>4 DEF ConfirmVerification
  <2> HIDE DEF k
  <2> QED
    BY <1>4, <2>2, <2>4, <2>5, StartStep DEF ConfirmVerification
<1> QED
  BY <1>2, <1>3, <1>4 DEF BadgeStarts

LEMMA BadgeAbortOK ==
  ASSUME BadgeInv, NEW c \in Calls, BadgeAbort(c)
  PROVE  BadgeInv'
BY LookStep DEF BadgeAbort, BEnds, BadgeCallOK

(* checkEmailAvailability, and the profile read before the record.         *)
LEMMA LooksOK ==
  ASSUME BadgeInv, NEW c \in Calls, CheckUsed(c) \/ CheckPending(c) \/ ReadHash(c)
  PROVE  BadgeInv'
<1>1. bcalls[c] \in BadgeCall /\ bcalls[c] # None /\ (badgesApart => BadgeCallOK(bcalls[c]))
  BY DEF CheckUsed, CheckPending, ReadHash, Waits, BadgeInv, BadgeTypeInv
<1>2. ASSUME NEW at \in {"checkPending", "clear"}, bcalls[c].at \in {"checkUsed", "checkPending"},
             BGoes(c, at), UNCHANGED <<members, links, usedMail, badges>>
      PROVE  BadgeInv'
  <2> DEFINE k == [bcalls[c] EXCEPT !.at = at]
  <2>1. bcalls[c] \in MailboxCall
    BY <1>1, <1>2, BadgeCallKinds DEF BadgeStages
  <2>2. k \in MailboxCall /\ k.user = bcalls[c].user
    BY <2>1 DEF MailboxCall, BadgeStages
  <2>3. badgesApart => BadgeCallOK(k)
    BY <1>1, <1>2, <2>1 DEF MailboxCall, BadgeCallOK, Asking, Clearing, HasLink, Opening
  <2>4. bcalls' = [bcalls EXCEPT ![c] = k] /\ UNCHANGED badgesApart
    BY <1>2 DEF BGoes
  <2> HIDE DEF k
  <2> QED
    BY <1>1, <1>2, <2>2, <2>3, <2>4, LookStep DEF BadgeCall
<1>3. CASE CheckUsed(c) \/ CheckPending(c)
  BY <1>1, <1>2, <1>3, LookStep DEF CheckUsed, CheckPending, Waits, BEnds, BadgeCallOK
<1>4. CASE ReadHash(c)
  <2> DEFINE k == [bcalls[c] EXCEPT !.at = "recordUsed", !.hash = members[bcalls[c].user].hash]
  <2>1. bcalls[c] \in MailboxCall /\ members[bcalls[c].user].hash \in Mailboxes \cup {None}
    BY <1>1, <1>4, BadgeCallKinds
       DEF ReadHash, Waits, BadgeStages, BadgeInv, BadgeTypeInv, Member
  <2>2. k \in MailboxCall /\ k.user = bcalls[c].user
    BY <2>1 DEF MailboxCall, BadgeStages
  <2>3. badgesApart => BadgeCallOK(k)
    BY <1>1, <1>4, <2>1
       DEF ReadHash, Waits, MailboxCall, BadgeCallOK, Asking, Clearing, HasLink, Opening
  <2>4. bcalls' = [bcalls EXCEPT ![c] = k]
    BY <1>4 DEF ReadHash
  <2> HIDE DEF k
  <2> QED
    BY <1>1, <1>4, <2>2, <2>3, <2>4, LookStep DEF ReadHash, BadgeCall
<1> QED
  BY <1>3, <1>4

(* The links not opened go.                                                *)
LEMMA LinksGoOK ==
  ASSUME BadgeInv, NEW c \in Calls, ClearLinks(c) \/ DropLinks(c)
  PROVE  BadgeInv'
<1>1. bcalls[c] \in BadgeCall /\ bcalls[c] # None /\ (badgesApart => BadgeCallOK(bcalls[c]))
  BY DEF ClearLinks, DropLinks, Waits, BadgeInv, BadgeTypeInv
<1>2. PICK u \in Staffers : u = bcalls[c].user
  BY <1>1, BadgeCallKinds
<1>3. links' = WithoutUnused(u) /\ UNCHANGED <<members, usedMail, badges, badgesApart>>
  BY <1>2 DEF ClearLinks, DropLinks, BGoes
<1>4. ASSUME NEW t \in LinkIds
      PROVE  /\ links'[t] = links[t] \/ (links'[t] = None /\ links[t].user = u)
             /\ links'[t] # None /\ links'[t].user = u => links'[t].used
  BY <1>3 DEF WithoutUnused
<1>5. links' \in [LinkIds -> Link \cup {None}]
  BY <1>3 DEF WithoutUnused, BadgeInv, BadgeTypeInv
<1>6. \A d \in Calls \ {c} : bcalls'[d] = bcalls[d]
  BY DEF ClearLinks, DropLinks, BGoes, BadgeInv, BadgeTypeInv
<1>7. /\ bcalls'[c] \in BadgeCall /\ bcalls'[c].user = u
      /\ badgesApart => BadgeCallOK(bcalls[c])'
  <2>1. CASE ClearLinks(c)
    <3>1. bcalls'[c] = [bcalls[c] EXCEPT !.at = "insertLink",
                                         !.resend = members[u].hash = bcalls[c].email]
      BY <1>2, <2>1 DEF ClearLinks, BadgeInv, BadgeTypeInv
    <3>5. bcalls[c] \in MailboxCall
      BY <1>1, <2>1, BadgeCallKinds DEF ClearLinks, Waits, BadgeStages
    <3>2. bcalls'[c] \in BadgeCall /\ bcalls'[c].user = u
      BY <1>2, <3>5, <3>1 DEF BadgeCall, MailboxCall, BadgeStages
    <3>3. /\ bcalls'[c].at = "insertLink" /\ bcalls'[c].email = bcalls[c].email
          /\ bcalls'[c].resend => members[u].hash = bcalls[c].email
      BY <3>5, <3>1 DEF MailboxCall
    <3>4. badgesApart => ~members[u].verified
      BY <1>1, <1>2, <2>1 DEF ClearLinks, Waits, BadgeCallOK, Asking
    <3> QED
      BY <1>3, <1>4, <3>2, <3>3, <3>4 DEF BadgeCallOK, Clearing, HasLink, Opening
  <2>2. CASE DropLinks(c)
    <3>1. bcalls'[c] = [bcalls[c] EXCEPT !.at = "writeCompany"]
      BY <2>2 DEF DropLinks, BGoes, BadgeInv, BadgeTypeInv
    <3>6. bcalls[c] \in CompanyCall
      BY <1>1, <2>2, BadgeCallKinds DEF DropLinks, Waits
    <3> QED
      BY <1>2, <3>1, <3>6
         DEF BadgeCall, CompanyCall, BadgeCallOK, Asking, Clearing, HasLink, Opening
  <2> QED
    BY <2>1, <2>2
<1>8. BadgeTypeInv'
  <2>1. bcalls' \in [Calls -> BadgeCall \cup {None}]
    BY <1>6, <1>7 DEF ClearLinks, DropLinks, BGoes, BadgeInv, BadgeTypeInv
  <2> QED
    BY <1>3, <1>5, <2>1 DEF BadgeInv, BadgeTypeInv
<1>9. HashesDiffer'
  BY <1>3 DEF BadgeInv, HashesDiffer
<1>10. badgesApart => BadgeOK(u)'
  BY <1>3 DEF BadgeInv, BadgeOK
<1>11. \A t \in LinkIds : links'[t] # None /\ links'[t].user = u => LinkOK(t)'
  BY <1>4 DEF LinkOK
<1> QED
  BY <1>1, <1>2, <1>3, <1>4, <1>6, <1>7, <1>8, <1>9, <1>10, <1>11, HandlerStep

(* A new link, of those no handler holds, is not mailed yet.               *)
LEMMA InsertLinkOK ==
  ASSUME BadgeInv, NEW c \in Calls, InsertLink(c)
  PROVE  BadgeInv'
<1>1. /\ bcalls[c] \in BadgeCall /\ bcalls[c] # None /\ bcalls[c].at = "insertLink"
      /\ badgesApart => BadgeCallOK(bcalls[c])
  BY DEF InsertLink, Waits, BadgeInv, BadgeTypeInv
<1>2. PICK u \in Staffers : u = bcalls[c].user
  BY <1>1, BadgeCallKinds
<1>3. UNCHANGED <<members, usedMail, badges, badgesApart>>
  BY DEF InsertLink
<1>4. PICK new \in LinkIds :
        /\ UnusedLink(new)
        /\ links' = [links EXCEPT ![new] = [user |-> u, email |-> bcalls[c].email,
                                            used |-> FALSE, mailed |-> FALSE]]
        /\ bcalls' = [bcalls EXCEPT ![c].link = new,
                                    ![c].at = IF bcalls[c].resend THEN "mail" ELSE "setEmail"]
  BY <1>2 DEF InsertLink
<1> DEFINE row == [user |-> u, email |-> bcalls[c].email, used |-> FALSE, mailed |-> FALSE]
<1>5. links[new] = None /\ links'[new] = row /\ \A t \in LinkIds \ {new} : links'[t] = links[t]
  BY <1>4 DEF UnusedLink, BadgeInv, BadgeTypeInv
<1>6. /\ \A d \in Calls \ {c} : bcalls'[d] = bcalls[d]
      /\ bcalls'[c] = [bcalls[c] EXCEPT !.link = new,
                                        !.at = IF bcalls[c].resend THEN "mail" ELSE "setEmail"]
  BY <1>4 DEF BadgeInv, BadgeTypeInv
<1>7. /\ bcalls'[c] \in BadgeCall /\ bcalls'[c].user = u /\ bcalls'[c].link = new
      /\ bcalls'[c].email = bcalls[c].email /\ bcalls'[c].at \in {"mail", "setEmail"}
      /\ bcalls'[c].at = "mail" => bcalls[c].resend
  <2>1. bcalls[c] \in MailboxCall
    BY <1>1, BadgeCallKinds DEF BadgeStages
  <2> QED
    BY <1>2, <1>6, <2>1 DEF BadgeCall, MailboxCall, BadgeStages
<1>8. row \in Link /\ row.user = u /\ row.email = bcalls[c].email /\ ~row.mailed
  BY <1>1, BadgeCallKinds DEF Link, BadgeStages
<1> HIDE DEF row
<1>9. BadgeTypeInv'
  <2>1. bcalls' \in [Calls -> BadgeCall \cup {None}]
    BY <1>4, <1>6, <1>7 DEF BadgeInv, BadgeTypeInv
  <2>2. links' \in [LinkIds -> Link \cup {None}]
    BY <1>4, <1>5, <1>8 DEF BadgeInv, BadgeTypeInv
  <2> QED
    BY <1>3, <2>1, <2>2 DEF BadgeInv, BadgeTypeInv
<1>10. HashesDiffer' /\ (badgesApart => BadgeOK(u)')
  BY <1>3 DEF BadgeInv, HashesDiffer, BadgeOK
<1>11. ASSUME badgesApart
       PROVE  BadgeCallOK(bcalls[c])'
              /\ \A t \in LinkIds : links'[t] # None /\ links'[t].user = u => LinkOK(t)'
  <2>1. ~members[u].verified /\ BadgeCallOK(bcalls[c])
    BY <1>1, <1>2, <1>11 DEF BadgeCallOK, Asking
  <2>2. \A t \in LinkIds : links'[t] # None /\ links'[t].user = u => links'[t].used \/ ~links'[t].mailed
    BY <1>1, <1>2, <1>5, <1>8, <2>1 DEF BadgeCallOK, Clearing
  <2>3. BadgeCallOK(bcalls[c])'
    BY <1>1, <1>2, <1>3, <1>5, <1>7, <1>8, <2>1, <2>2
       DEF BadgeCallOK, Asking, Clearing, HasLink, Opening
  <2>4. \A t \in LinkIds : links'[t] # None /\ links'[t].user = u => LinkOK(t)'
    BY <2>2 DEF LinkOK
  <2> QED
    BY <2>3, <2>4
<1>12. ASSUME NEW t \in LinkIds
       PROVE  \/ links'[t] = links[t]
              \/ links'[t] = None /\ links[t].user = u
              \/ links[t] = None /\ UnusedLink(t) /\ links'[t].user = u
              \/ links[t] # None /\ links[t].user = u /\ links'[t].user = u
                   /\ links'[t].email = links[t].email
  <2>1. CASE t = new
    BY <1>4, <1>5, <1>8, <2>1
  <2>2. CASE t # new
    BY <1>5, <2>2
  <2> QED
    BY <2>1, <2>2
<1>13. /\ \A v \in Staffers \ {u} : members'[v] = members[v]
       /\ \A e \in Mailboxes : usedMail[e] # None => usedMail'[e] # None
       /\ badges \subseteq badges' /\ (badgesApart' => badgesApart)
  BY <1>3
<1>14. badgesApart' =>
         /\ \A t \in LinkIds : links'[t] # None /\ links'[t].user = u => LinkOK(t)'
         /\ BadgeCallOK(bcalls[c])' /\ BadgeOK(u)'
  BY <1>10, <1>11, <1>13
<1> QED
  BY <1>1, <1>2, <1>6, <1>7, <1>9, <1>10, <1>12, <1>13, <1>14, HandlerStep

(* The profile names the mailbox, unless the profile of another does.      *)
LEMMA SetEmailOK ==
  ASSUME BadgeInv, NEW c \in Calls, SetEmail(c)
  PROVE  BadgeInv'
<1>1. /\ bcalls[c] \in MailboxCall /\ bcalls[c] # None /\ bcalls[c].at = "setEmail"
      /\ badgesApart => BadgeCallOK(bcalls[c])
  BY BadgeCallKinds DEF SetEmail, Waits, BadgeStages, BadgeInv, BadgeTypeInv
<1>2. PICK u \in Staffers : u = bcalls[c].user
  BY <1>1 DEF MailboxCall
<1>3. CASE \E v \in Staffers \ {u} : members[v].hash = bcalls[c].email
  BY <1>1, <1>2, <1>3, LookStep DEF SetEmail, BEnds, BadgeCallOK
<1>4. CASE ~\E v \in Staffers \ {u} : members[v].hash = bcalls[c].email
  <2>1. /\ members' = [members EXCEPT ![u].hash = bcalls[c].email]
        /\ bcalls' = [bcalls EXCEPT ![c].at = "mail"]
        /\ UNCHANGED <<links, usedMail, badges, badgesApart>>
    BY <1>2, <1>4 DEF SetEmail, BGoes
  <2>2. /\ members'[u] = [members[u] EXCEPT !.hash = bcalls[c].email]
        /\ \A v \in Staffers \ {u} : members'[v] = members[v]
    BY <2>1 DEF BadgeInv, BadgeTypeInv
  <2>3. /\ members'[u] \in Member /\ members'[u].hash = bcalls[c].email
        /\ members'[u].verified = members[u].verified
    BY <1>1, <2>2 DEF MailboxCall, BadgeInv, BadgeTypeInv, Member
  <2>4. /\ bcalls'[c] = [bcalls[c] EXCEPT !.at = "mail"]
        /\ \A d \in Calls \ {c} : bcalls'[d] = bcalls[d]
    BY <2>1 DEF BadgeInv, BadgeTypeInv
  <2>5. /\ bcalls'[c] \in MailboxCall /\ bcalls'[c].user = u /\ bcalls'[c].at = "mail"
        /\ bcalls'[c].link = bcalls[c].link /\ bcalls'[c].email = bcalls[c].email
    BY <1>1, <1>2, <2>4 DEF MailboxCall, BadgeStages
  <2>6. BadgeTypeInv'
    <3>1. members' \in [Staffers -> Member]
      BY <2>1, <2>2, <2>3 DEF BadgeInv, BadgeTypeInv
    <3>2. bcalls' \in [Calls -> BadgeCall \cup {None}]
      BY <2>1, <2>4, <2>5 DEF BadgeInv, BadgeTypeInv, BadgeCall
    <3> QED
      BY <2>1, <3>1, <3>2 DEF BadgeInv, BadgeTypeInv
  <2>7. HashesDiffer'
    BY <1>4, <2>2, <2>3 DEF BadgeInv, HashesDiffer
  <2>8. ASSUME badgesApart
        PROVE  /\ BadgeCallOK(bcalls[c])' /\ BadgeOK(u)'
               /\ \A t \in LinkIds : links'[t] # None /\ links'[t].user = u => LinkOK(t)'
    <3>1. BadgeCallOK(bcalls[c]) /\ ~members[u].verified
      BY <1>1, <1>2, <2>8 DEF BadgeCallOK, Asking
    <3>2. BadgeCallOK(bcalls[c])'
      BY <1>1, <1>2, <2>1, <2>3, <2>5, <3>1
         DEF BadgeCallOK, Asking, Clearing, HasLink, Opening
    <3>3. BadgeOK(u)'
      BY <2>3, <3>1 DEF BadgeOK
    <3>4. \A t \in LinkIds : links'[t] # None /\ links'[t].user = u => LinkOK(t)'
      BY <1>1, <1>2, <2>1, <3>1 DEF BadgeCallOK, Clearing, LinkOK
    <3> QED
      BY <3>2, <3>3, <3>4
  <2> QED
    BY <1>1, <1>2, <2>1, <2>2, <2>4, <2>5, <2>6, <2>7, <2>8, HandlerStep
<1> QED
  BY <1>3, <1>4

(* Mailing a link and marking it used change that link alone.              *)
LEMMA MarkLinkOK ==
  ASSUME BadgeInv, NEW c \in Calls, SendCompanyVerificationEmail(c) \/ UseLink(c)
  PROVE  BadgeInv'
<1>1. /\ bcalls[c] \in MailboxCall /\ bcalls[c] # None
      /\ badgesApart => BadgeCallOK(bcalls[c])
      /\ UNCHANGED <<members, usedMail, badges, badgesApart>>
  BY BadgeCallKinds
     DEF SendCompanyVerificationEmail, UseLink, BEnds, BGoes, Waits, BadgeStages, BadgeInv,
         BadgeTypeInv
<1>2. PICK u \in Staffers : u = bcalls[c].user
  BY <1>1 DEF MailboxCall
<1>3. \A d \in Calls \ {c} : bcalls'[d] = bcalls[d]
  BY DEF SendCompanyVerificationEmail, UseLink, BEnds, BGoes, BadgeInv, BadgeTypeInv
<1>4. HashesDiffer' /\ (badgesApart => BadgeOK(u)')
  BY <1>1 DEF BadgeInv, HashesDiffer, BadgeOK
<1>5. ASSUME NEW t \in LinkIds
      PROVE  \/ links'[t] = links[t]
             \/ /\ t = bcalls[c].link /\ links[t] # None /\ links'[t] \in Link
                /\ links'[t].user = links[t].user /\ links'[t].email = links[t].email
  <2>1. links[t] # None => links[t] \in Link
    BY DEF BadgeInv, BadgeTypeInv
  <2>2. CASE t = bcalls[c].link /\ links[t] # None
    <3>1. \/ links'[t] = [links[t] EXCEPT !.mailed = TRUE]
          \/ links'[t] = [links[t] EXCEPT !.used = TRUE]
      BY <2>2 DEF SendCompanyVerificationEmail, UseLink
    <3> QED
      BY <2>1, <2>2, <3>1 DEF Link
  <2>3. CASE ~(t = bcalls[c].link /\ links[t] # None)
    BY <2>3 DEF SendCompanyVerificationEmail, UseLink
  <2> QED
    BY <2>2, <2>3
<1>6. /\ bcalls[c].at \in {"mail", "useLink"}
      /\ \/ bcalls'[c] = None
         \/ bcalls'[c] = [bcalls[c] EXCEPT !.at = "readHash"]
  BY DEF SendCompanyVerificationEmail, UseLink, BEnds, BGoes, Waits, BadgeInv, BadgeTypeInv
<1>7. \/ bcalls'[c] = None
      \/ /\ bcalls'[c] \in MailboxCall /\ bcalls'[c].user = u /\ bcalls'[c].at = "readHash"
         /\ bcalls'[c].email = bcalls[c].email
  BY <1>1, <1>2, <1>6 DEF MailboxCall, BadgeStages
<1>8. BadgeTypeInv'
  <2>1. links' \in [LinkIds -> Link \cup {None}]
    <3>1. \A t \in LinkIds : links'[t] \in Link \cup {None}
      BY <1>5 DEF BadgeInv, BadgeTypeInv
    <3> QED
      BY <3>1 DEF SendCompanyVerificationEmail, UseLink
  <2>2. bcalls' \in [Calls -> BadgeCall \cup {None}]
    BY <1>3, <1>7
       DEF SendCompanyVerificationEmail, UseLink, BEnds, BGoes, BadgeInv, BadgeTypeInv, BadgeCall
  <2> QED
    BY <1>1, <2>1, <2>2 DEF BadgeInv, BadgeTypeInv
<1>9. CASE ~badgesApart
  BY <1>1, <1>4, <1>8, <1>9 DEF BadgeInv
<1>10. CASE badgesApart
  <2>1. BadgeCallOK(bcalls[c]) /\ members[u].hash = bcalls[c].email
    BY <1>1, <1>2, <1>6, <1>10 DEF BadgeCallOK, Opening
  <2>2. ASSUME NEW t \in LinkIds
        PROVE  \/ links'[t] = links[t]
               \/ /\ links[t] # None /\ links[t].user = u /\ links'[t].user = u
                  /\ links'[t].email = links[t].email /\ links'[t].email = members[u].hash
    BY <1>1, <1>2, <1>5, <1>6, <2>1 DEF BadgeCallOK, HasLink
  <2>3. \A t \in LinkIds : links'[t] # None /\ links'[t].user = u => LinkOK(t)'
    <3> SUFFICES ASSUME NEW t \in LinkIds, links'[t] # None, links'[t].user = u PROVE LinkOK(t)'
      OBVIOUS
    <3>1. LinkOK(t)
      BY <1>10 DEF BadgeInv
    <3> QED
      BY <1>1, <2>2, <3>1 DEF LinkOK
  <2>4. BadgeCallOK(bcalls[c])'
    BY <1>1, <1>7, <2>1 DEF BadgeCallOK, Asking, Clearing, HasLink, Opening
  <2>5. ASSUME NEW t \in LinkIds
        PROVE  \/ links'[t] = links[t]
               \/ links'[t] = None /\ links[t].user = u
               \/ links[t] = None /\ UnusedLink(t) /\ links'[t].user = u
               \/ links[t] # None /\ links[t].user = u /\ links'[t].user = u
                    /\ links'[t].email = links[t].email
    BY <2>2
  <2>6. /\ \A v \in Staffers \ {u} : members'[v] = members[v]
        /\ \A e \in Mailboxes : usedMail[e] # None => usedMail'[e] # None
        /\ badges \subseteq badges' /\ (badgesApart' => badgesApart)
    BY <1>1
  <2>7. badgesApart' =>
          /\ \A t \in LinkIds : links'[t] # None /\ links'[t].user = u => LinkOK(t)'
          /\ BadgeCallOK(bcalls[c])' /\ BadgeOK(u)'
    BY <1>4, <1>10, <2>3, <2>4
  <2>8. bcalls'[c] # None => bcalls'[c].user = u
    BY <1>7
  <2> QED
    BY <1>1, <1>2, <1>3, <1>4, <1>8, <2>5, <2>6, <2>7, <2>8, HandlerStep
<1> QED
  BY <1>9, <1>10

(* The mailbox is recorded as used, or an error of the insert is logged.   *)
LEMMA RecordUsedOK ==
  ASSUME BadgeInv, NEW c \in Calls, RecordUsed(c)
  PROVE  BadgeInv'
<1>1. /\ bcalls[c] \in MailboxCall /\ bcalls[c] # None /\ bcalls[c].at = "recordUsed"
      /\ badgesApart => BadgeCallOK(bcalls[c])
      /\ UNCHANGED <<members, links, badges>>
  BY BadgeCallKinds DEF RecordUsed, Waits, BadgeStages, BadgeInv, BadgeTypeInv
<1>2. PICK u \in Staffers : u = bcalls[c].user
  BY <1>1 DEF MailboxCall
<1>3. /\ \A d \in Calls \ {c} : bcalls'[d] = bcalls[d]
      /\ bcalls'[c] = [bcalls[c] EXCEPT !.at = "verify"]
  BY DEF RecordUsed, BadgeInv, BadgeTypeInv
<1>4. /\ bcalls'[c] \in MailboxCall /\ bcalls'[c].user = u /\ bcalls'[c].at = "verify"
      /\ bcalls'[c].email = bcalls[c].email /\ bcalls'[c].hash = bcalls[c].hash
  BY <1>1, <1>2, <1>3 DEF MailboxCall, BadgeStages
<1>5. /\ usedMail' \in [Mailboxes -> Staffers \cup {None}]
      /\ \A e \in Mailboxes : usedMail[e] # None => usedMail'[e] # None
      /\ badgesApart' \in BOOLEAN /\ (badgesApart' => badgesApart)
      /\ badgesApart' /\ bcalls[c].hash # None => usedMail'[bcalls[c].hash] # None
  <2>1. bcalls[c].hash \in Mailboxes \cup {None} /\ u # None
    BY <1>1, BadgesAssumption DEF MailboxCall
  <2>2. \/ usedMail' = usedMail /\ badgesApart' = FALSE
        \/ /\ usedMail' = usedMail /\ badgesApart' = badgesApart
           /\ bcalls[c].hash = None \/ usedMail[bcalls[c].hash] # None
        \/ /\ usedMail' = [usedMail EXCEPT ![bcalls[c].hash] = u] /\ badgesApart' = badgesApart
           /\ bcalls[c].hash # None
    BY <1>2 DEF RecordUsed
  <2>3. badgesApart' \in BOOLEAN /\ (badgesApart' => badgesApart)
    <3>1. badgesApart \in BOOLEAN
      BY DEF BadgeInv, BadgeTypeInv
    <3>2. badgesApart' = badgesApart \/ badgesApart' = FALSE
      BY <2>2, Zenon
    <3>3. CASE badgesApart' = badgesApart
      BY <3>1, <3>3, Zenon
    <3>4. CASE badgesApart' = FALSE
      <4>1. ~badgesApart'
        BY <3>4, Zenon
      <4>2. badgesApart' \in BOOLEAN
        BY <3>4
      <4> QED
        BY <4>1, <4>2, Zenon
    <3> QED
      BY <3>2, <3>3, <3>4
  <2>4. \/ /\ usedMail' = usedMail
           /\ badgesApart' => (bcalls[c].hash = None \/ usedMail[bcalls[c].hash] # None)
        \/ bcalls[c].hash # None /\ usedMail' = [usedMail EXCEPT ![bcalls[c].hash] = u]
    BY <2>2, Zenon
  <2>5. usedMail \in [Mailboxes -> Staffers \cup {None}]
    BY DEF BadgeInv, BadgeTypeInv
  <2> QED
    BY <2>1, <2>3, <2>4, <2>5
<1>6. BadgeTypeInv'
  <2>1. bcalls' \in [Calls -> BadgeCall \cup {None}]
    BY <1>3, <1>4 DEF RecordUsed, BadgeInv, BadgeTypeInv, BadgeCall
  <2> QED
    BY <1>1, <1>5, <2>1 DEF BadgeInv, BadgeTypeInv
<1>7. HashesDiffer'
  BY <1>1 DEF BadgeInv, HashesDiffer
<1>8. ASSUME badgesApart'
      PROVE  /\ BadgeCallOK(bcalls[c])' /\ BadgeOK(u)'
             /\ \A t \in LinkIds : links'[t] # None /\ links'[t].user = u => LinkOK(t)'
  <2>1. BadgeCallOK(bcalls[c]) /\ badgesApart
    BY <1>1, <1>5, <1>8
  <2>2. members[u].hash = bcalls[c].email /\ bcalls[c].hash = bcalls[c].email
    BY <1>1, <1>2, <2>1 DEF BadgeCallOK, Opening
  <2>3. bcalls[c].email \in Mailboxes /\ bcalls[c].email # None
    BY <1>1, BadgesAssumption DEF MailboxCall
  <2>4. BadgeCallOK(bcalls[c])'
    BY <1>1, <1>4, <1>5, <1>8, <2>2, <2>3 DEF BadgeCallOK, Asking, Clearing, HasLink, Opening
  <2>5. BadgeOK(u)'
    BY <1>1, <1>5, <2>1 DEF BadgeInv, BadgeOK
  <2>6. \A t \in LinkIds : LinkOK(t)'
    BY <1>1, <2>1 DEF BadgeInv, LinkOK
  <2> QED
    BY <2>4, <2>5, <2>6
<1>9. \A t \in LinkIds : links'[t] = links[t]
  BY <1>1
<1>10. badges \subseteq badges' /\ \A v \in Staffers \ {u} : members'[v] = members[v]
  BY <1>1
<1> QED
  BY <1>1, <1>2, <1>3, <1>4, <1>5, <1>6, <1>7, <1>8, <1>9, <1>10, HandlerStep

(* The badge itself: the mailbox it rests on is named and recorded.        *)
LEMMA VerifyProfileOK ==
  ASSUME BadgeInv, NEW c \in Calls, VerifyProfile(c)
  PROVE  BadgeInv'
<1>1. /\ bcalls[c] \in MailboxCall /\ bcalls[c] # None /\ bcalls[c].at = "verify"
      /\ badgesApart => BadgeCallOK(bcalls[c])
      /\ UNCHANGED <<links, usedMail, badgesApart>>
      /\ bcalls' = [bcalls EXCEPT ![c] = None]
  BY BadgeCallKinds DEF VerifyProfile, BEnds, Waits, BadgeStages, BadgeInv, BadgeTypeInv
<1>2. PICK u \in Staffers : u = bcalls[c].user
  BY <1>1 DEF MailboxCall
<1>3. /\ bcalls'[c] = None
      /\ \A d \in Calls \ {c} : bcalls'[d] = bcalls[d]
  BY <1>1 DEF BadgeInv, BadgeTypeInv
<1>4. /\ members'[u] = [members[u] EXCEPT !.verified = TRUE]
      /\ \A v \in Staffers \ {u} : members'[v] = members[v]
      /\ badges' = badges \cup {<<u, bcalls[c].email>>}
  BY <1>2 DEF VerifyProfile, BadgeInv, BadgeTypeInv
<1>5. members'[u] \in Member /\ members'[u].hash = members[u].hash
  BY <1>4 DEF Member, BadgeInv, BadgeTypeInv
<1>6. bcalls[c].email \in Mailboxes
  BY <1>1 DEF MailboxCall
<1>7. BadgeTypeInv'
  <2>1. members' \in [Staffers -> Member]
    BY <1>4, <1>5 DEF VerifyProfile, BadgeInv, BadgeTypeInv
  <2>2. bcalls' \in [Calls -> BadgeCall \cup {None}]
    BY <1>1 DEF BadgeInv, BadgeTypeInv
  <2>3. badges' \subseteq Staffers \X Mailboxes
    BY <1>4, <1>6 DEF BadgeInv, BadgeTypeInv
  <2> QED
    BY <1>1, <2>1, <2>2, <2>3 DEF BadgeInv, BadgeTypeInv
<1>8. \A v \in Staffers : members'[v].hash = members[v].hash
  BY <1>4, <1>5
<1>9. HashesDiffer'
  BY <1>8 DEF BadgeInv, HashesDiffer
<1>10. ASSUME badgesApart
       PROVE  /\ BadgeCallOK(bcalls[c])' /\ BadgeOK(u)'
              /\ \A t \in LinkIds : links'[t] # None /\ links'[t].user = u => LinkOK(t)'
  <2>1. members[u].hash = bcalls[c].email /\ usedMail[bcalls[c].email] # None
    BY <1>1, <1>2, <1>10 DEF BadgeCallOK, Opening
  <2>2. BadgeOK(u)'
    BY <1>1, <1>4, <1>6, <1>8, <2>1 DEF BadgeOK
  <2>3. \A t \in LinkIds : links'[t] # None /\ links'[t].user = u => LinkOK(t)'
    BY <1>1, <1>8, <1>10 DEF BadgeInv, LinkOK
  <2> QED
    BY <1>3, <2>2, <2>3 DEF BadgeCallOK
<1>11. \A t \in LinkIds : links'[t] = links[t]
  BY <1>1
<1>12. badges \subseteq badges' /\ \A e \in Mailboxes : usedMail[e] # None => usedMail'[e] # None
  BY <1>1, <1>4
<1> QED
  BY <1>1, <1>2, <1>3, <1>4, <1>7, <1>9, <1>10, <1>11, <1>12, HandlerStep

(* Another company takes the badge away, and the mailbox stays the user's. *)
LEMMA WriteCompanyOK ==
  ASSUME BadgeInv, NEW c \in Calls, WriteCompany(c)
  PROVE  BadgeInv'
<1>1. /\ bcalls[c] \in CompanyCall /\ bcalls[c] # None
      /\ UNCHANGED <<links, usedMail, badges, badgesApart>>
      /\ bcalls' = [bcalls EXCEPT ![c] = None]
  BY BadgeCallKinds DEF WriteCompany, BEnds, Waits, BadgeInv, BadgeTypeInv
<1>2. PICK u \in Staffers : u = bcalls[c].user
  BY <1>1 DEF CompanyCall
<1>3. /\ bcalls'[c] = None
      /\ \A d \in Calls \ {c} : bcalls'[d] = bcalls[d]
  BY <1>1 DEF BadgeInv, BadgeTypeInv
<1>4. /\ members'[u] = [members[u] EXCEPT !.company = bcalls[c].company, !.verified = FALSE]
      /\ \A v \in Staffers \ {u} : members'[v] = members[v]
  BY <1>2 DEF WriteCompany, BadgeInv, BadgeTypeInv
<1>5. members'[u] \in Member /\ members'[u].hash = members[u].hash /\ ~members'[u].verified
  BY <1>1, <1>4 DEF CompanyCall, Member, BadgeInv, BadgeTypeInv
<1>6. BadgeTypeInv'
  <2>1. members' \in [Staffers -> Member]
    BY <1>4, <1>5 DEF WriteCompany, BadgeInv, BadgeTypeInv
  <2>2. bcalls' \in [Calls -> BadgeCall \cup {None}]
    BY <1>1 DEF BadgeInv, BadgeTypeInv
  <2> QED
    BY <1>1, <2>1, <2>2 DEF BadgeInv, BadgeTypeInv
<1>7. \A v \in Staffers : members'[v].hash = members[v].hash
  BY <1>4, <1>5
<1>8. HashesDiffer'
  BY <1>7 DEF BadgeInv, HashesDiffer
<1>9. ASSUME badgesApart
      PROVE  /\ BadgeCallOK(bcalls[c])' /\ BadgeOK(u)'
             /\ \A t \in LinkIds : links'[t] # None /\ links'[t].user = u => LinkOK(t)'
  BY <1>1, <1>3, <1>5, <1>7, <1>9 DEF BadgeInv, BadgeCallOK, BadgeOK, LinkOK
<1>10. \A t \in LinkIds : links'[t] = links[t]
  BY <1>1
<1>11. badges \subseteq badges' /\ \A e \in Mailboxes : usedMail[e] # None => usedMail'[e] # None
  BY <1>1
<1> QED
  BY <1>1, <1>2, <1>3, <1>4, <1>6, <1>8, <1>9, <1>10, <1>11, HandlerStep

(* The older profile pages write the company and nothing the badge needs.  *)
LEMMA SaveCompanyOK ==
  ASSUME BadgeInv, NEW u \in Staffers, NEW company \in Companies, SaveCompany(u, company)
  PROVE  BadgeInv'
<1>1. /\ members'[u] = [members[u] EXCEPT !.company = company]
      /\ \A v \in Staffers \ {u} : members'[v] = members[v]
      /\ UNCHANGED <<links, usedMail, bcalls, badges>>
  BY DEF SaveCompany, BadgeInv, BadgeTypeInv
<1>2. members'[u] \in Member /\ members'[u].hash = members[u].hash
      /\ members'[u].verified = members[u].verified
  BY <1>1 DEF Member, BadgeInv, BadgeTypeInv
<1>3. \A v \in Staffers :
        members'[v].hash = members[v].hash /\ members'[v].verified = members[v].verified
  BY <1>1, <1>2
<1>4. BadgeTypeInv'
  BY <1>1, <1>2 DEF SaveCompany, BadgeInv, BadgeTypeInv
<1>5. HashesDiffer'
  BY <1>3 DEF BadgeInv, HashesDiffer
<1>6. badgesApart' => badgesApart
  BY DEF SaveCompany
<1>7. CASE badgesApart'
  <2> USE <1>6, <1>7
  <2>1. OneCallEach'
    BY <1>1 DEF BadgeInv, OneCallEach
  <2>2. ASSUME NEW t \in LinkIds PROVE LinkOK(t)'
    <3>1. LinkOK(t) /\ (links[t] # None => links[t].user \in Staffers)
      BY DEF BadgeInv, BadgeTypeInv, Link
    <3> QED
      BY <1>1, <1>3, <3>1 DEF LinkOK
  <2>3. ASSUME NEW c \in Calls PROVE BadgeCallOK(bcalls[c])'
    <3>1. BadgeCallOK(bcalls[c]) /\ (bcalls[c] # None => bcalls[c].user \in Staffers)
      BY BadgeCallKinds DEF BadgeInv, BadgeTypeInv
    <3> QED
      BY <1>1, <1>3, <3>1 DEF BadgeCallOK
  <2>4. ASSUME NEW v \in Staffers PROVE BadgeOK(v)'
    BY <1>1, <1>3 DEF BadgeInv, BadgeOK
  <2> QED
    BY <1>4, <1>5, <2>1, <2>2, <2>3, <2>4 DEF BadgeInv
<1>8. CASE ~badgesApart'
  BY <1>4, <1>5, <1>8 DEF BadgeInv
<1> QED
  BY <1>7, <1>8

(* Whatever handlers overlap, while no user has two of them and no record  *)
(* of a used mailbox is lost, a badge rests on the mailbox of its profile, *)
(* which is on record as used and which no other profile names             *)
(* (confirmVerification with the unique index of user_profiles).           *)
THEOREM OneMailboxOneBadge == BadgesSpec => []OneBadgePerMailbox
<1>1. BadgesInit => BadgeInv
  BY BadgesInitOK
<1>2. BadgeInv /\ [BadgesNext]_badgeVars => BadgeInv'
  <2> SUFFICES ASSUME BadgeInv, [BadgesNext]_badgeVars PROVE BadgeInv'
    OBVIOUS
  <2>1. ASSUME NEW c \in Calls, BadgeStep(c) PROVE BadgeInv'
    BY <2>1, LooksOK, LinksGoOK, InsertLinkOK, SetEmailOK, MarkLinkOK, RecordUsedOK,
       VerifyProfileOK, WriteCompanyOK DEF BadgeStep
  <2>2. CASE BadgesNext
    BY <2>1, <2>2, BadgeStartsOK, BadgeAbortOK, SaveCompanyOK DEF BadgesNext
  <2>3. CASE UNCHANGED badgeVars
    BY <2>3 DEF badgeVars, BadgeInv, BadgeTypeInv, HashesDiffer, OneCallEach, LinkOK, BadgeCallOK,
                BadgeOK, UnusedLink
  <2> QED
    BY <2>2, <2>3
<1>3. BadgeInv => OneBadgePerMailbox
  <2> SUFFICES ASSUME BadgeInv, badgesApart, NEW u \in Staffers, members[u].verified,
                      NEW v \in Staffers \ {u}
               PROVE  /\ <<u, members[u].hash>> \in badges
                      /\ usedMail[members[u].hash] # None
                      /\ members[v].hash # members[u].hash
    BY DEF BadgeInv, BadgeOK, OneBadgePerMailbox
  <2>1. members[u].hash # None /\ BadgeOK(u)
    BY BadgesAssumption DEF BadgeInv, BadgeOK
  <2> QED
    BY <2>1 DEF BadgeInv, BadgeOK, HashesDiffer
<1> QED
  BY <1>1, <1>2, <1>3, PTL DEF BadgesSpec

----------------------------------------------------------------------------
(* Codes and profiles.  A pending code has not been taken as right and no  *)
(* other address has it; a handler that will confirm an address or link a  *)
(* provider knows the address as proven, or Apple's client has named it,   *)
(* and the row it has found is still there, under that address or erased,  *)
(* and linked to an Apple id if only a client's word is behind the address.*)

CodesOK ==
  /\ \A e \in Emails : otpStore[e] # None =>
       /\ otpStore[e].code <= mailed
       /\ confirmations[otpStore[e].code] = 0
       /\ otpStore[e].attempts <= MaxAttempts
  /\ \A e, f \in Emails :
       e # f /\ otpStore[e] # None /\ otpStore[f] # None => otpStore[e].code # otpStore[f].code
  /\ \A k \in Codes : confirmations[k] <= 1 /\ (k > mailed => confirmations[k] = 0)

Grounded(e, p) == e \in proven \/ (e \in claimed /\ AppleLinked(p))

RowOK(p) ==
  profiles[p] # None /\ profiles[p].confirmed /\ profiles[p].email \in Emails =>
    Grounded(profiles[p].email, p)

SignsIn == {"findLinked", "findByEmail", "createLinked", "link"}

SignInOK(k) == \/ k.email \in proven \cup {NoAddress}
               \/ k.email \in claimed /\ k.provider = "apple"

AccountCallOK(k) ==
  k # None =>
    /\ k.at \in {"resend", "resendRefused", "resendCode"} => k.attempts < MaxAttempts
    /\ k.at = "findProfile" => k.email \in proven
    /\ k.at \in SignsIn => SignInOK(k)
    /\ k.at = "confirm" => k.email = NoAddress \/ Grounded(k.email, k.row)
    /\ k.at \in {"confirm", "resetWrite", "erase", "link"} => profiles[k.row] # None
    /\ k.at \in {"confirm", "link"} => profiles[k.row].email \in {k.email, None}

AccountInv ==
  /\ AccountsTypeOK
  /\ CodesOK
  /\ \A p \in Profiles : RowOK(p)
  /\ \A c \in Calls : AccountCallOK(acalls[c])

LEMMA AccountCallKinds ==
  ASSUME NEW k \in AccountCall
  PROVE  /\ k.email \in Addresses \cup {None}
         /\ k.at \in {"checkEmail", "hash", "create", "createAgain"} => k \in SignupCall
         /\ k.at \in {"findProfile", "resend", "resendRefused", "resendCode", "resetCode",
                      "resetProfile", "resetClear"} => k \in CodeCall
         /\ k.at = "confirm" => k \in ConfirmCall
         /\ k.at = "resetWrite" => k \in ResetCall
         /\ k.at = "erase" => k \in EraseCall
         /\ k.at \in {"findLinked", "findByEmail", "createLinked"} => k \in ProviderCall
         /\ k.at = "link" => k \in LinkCall
         /\ k.at \in {"confirm", "resetWrite", "erase", "link"} => k.row \in Profiles
BY DEF AccountCall, SignupCall, CodeCall, ConfirmCall, ResetCall, EraseCall, ProviderCall,
       LinkCall, Addresses

(* What the other handlers know stays so, since an address stays proven or *)
(* claimed, a row keeps its address or is erased, and is never unlinked.   *)
LEMMA AccountCallStep ==
  ASSUME AccountInv, NEW c \in Calls, NEW k \in AccountCall \cup {None},
         acalls' = [acalls EXCEPT ![c] = k],
         proven \subseteq proven', claimed \subseteq claimed',
         \A p \in Profiles : profiles[p] # None =>
           /\ profiles'[p] # None /\ profiles'[p].email \in {profiles[p].email, None}
           /\ AppleLinked(p) => AppleLinked(p)',
         AccountCallOK(k)'
  PROVE  /\ acalls' \in [Calls -> AccountCall \cup {None}]
         /\ \A d \in Calls : AccountCallOK(acalls[d])'
<1>1. acalls' \in [Calls -> AccountCall \cup {None}]
  BY DEF AccountInv, AccountsTypeOK
<1>2. acalls'[c] = k /\ \A d \in Calls \ {c} : acalls'[d] = acalls[d]
  BY DEF AccountInv, AccountsTypeOK
<1>3. AccountCallOK(acalls[c])'
  BY <1>2 DEF AccountCallOK
<1>4. ASSUME NEW d \in Calls \ {c} PROVE AccountCallOK(acalls[d])'
  <2>1. acalls[d] # None /\ acalls[d].at \in {"confirm", "resetWrite", "erase", "link"} =>
          acalls[d].row \in Profiles
    BY AccountCallKinds DEF AccountInv, AccountsTypeOK
  <2>2. AccountCallOK(acalls[d])
    BY DEF AccountInv
  <2> QED
    BY <1>2, <2>1, <2>2 DEF AccountCallOK, SignInOK, Grounded
<1> QED
  BY <1>1, <1>3, <1>4

(* A handler that writes nothing.                                          *)
LEMMA QuietStep ==
  ASSUME AccountInv, NEW c \in Calls, NEW k \in AccountCall \cup {None},
         acalls' = [acalls EXCEPT ![c] = k],
         UNCHANGED <<profiles, otpStore, mailed, proven, claimed, confirmations>>,
         AccountCallOK(k)
  PROVE  AccountInv'
<1>1. AccountCallOK(k)' /\ CodesOK' /\ \A p \in Profiles : RowOK(p)'
  BY DEF AccountInv, AccountCallOK, CodesOK, RowOK, SignInOK, Grounded, AppleLinked
<1>2. /\ acalls' \in [Calls -> AccountCall \cup {None}]
      /\ \A d \in Calls : AccountCallOK(acalls[d])'
  <2>1. ASSUME NEW p \in Profiles PROVE AppleLinked(p) => AppleLinked(p)'
    BY DEF AppleLinked
  <2> QED
    BY <1>1, <2>1, AccountCallStep
<1> QED
  BY <1>1, <1>2 DEF AccountInv, AccountsTypeOK

(* A handler that writes one profile.                                      *)
LEMMA WriteRowStep ==
  ASSUME AccountInv, NEW c \in Calls, NEW k \in AccountCall \cup {None},
         acalls' = [acalls EXCEPT ![c] = k],
         NEW p \in Profiles, NEW r \in ProfileRow, profiles' = [profiles EXCEPT ![p] = r],
         profiles[p] # None => r.email \in {profiles[p].email, None},
         profiles[p] # None /\ AppleLinked(p) => r.subs["apple"] # None,
         r.confirmed /\ r.email \in Emails =>
           r.email \in proven \/ (r.email \in claimed /\ r.subs["apple"] # None),
         UNCHANGED <<otpStore, mailed, proven, claimed, confirmations>>,
         AccountCallOK(k)'
  PROVE  AccountInv'
<1>1. /\ profiles' \in [Profiles -> ProfileRow \cup {None}]
      /\ profiles'[p] = r /\ \A q \in Profiles \ {p} : profiles'[q] = profiles[q]
  BY DEF AccountInv, AccountsTypeOK
<1>2. r # None
  BY AccountsAssumption
<1>3. CodesOK'
  BY DEF AccountInv, CodesOK
<1>4. ASSUME NEW q \in Profiles PROVE RowOK(q)'
  BY <1>1 DEF AccountInv, RowOK, Grounded, AppleLinked
<1>5. /\ acalls' \in [Calls -> AccountCall \cup {None}]
      /\ \A d \in Calls : AccountCallOK(acalls[d])'
  <2>1. ASSUME NEW q \in Profiles, profiles[q] # None
        PROVE  /\ profiles'[q] # None /\ profiles'[q].email \in {profiles[q].email, None}
               /\ AppleLinked(q) => AppleLinked(q)'
    BY <1>1, <1>2, <2>1 DEF AppleLinked
  <2>2. proven \subseteq proven' /\ claimed \subseteq claimed'
    OBVIOUS
  <2> QED
    BY <2>1, <2>2, AccountCallStep
<1> QED
  BY <1>1, <1>3, <1>4, <1>5 DEF AccountInv, AccountsTypeOK

(* storeOtp gives an address a code no other address has had.              *)
LEMMA StoreOtpOK ==
  ASSUME AccountInv, NEW e \in Emails, NEW type \in {"signup", "password_reset"},
         NEW n \in Nat, n <= MaxAttempts, StoreOtp(e, type, n), UNCHANGED confirmations
  PROVE  /\ otpStore' \in [Emails -> Otp \cup {None}] /\ mailed' \in 0..MaxCodes
         /\ CodesOK'
<1> DEFINE o == [code |-> mailed + 1, type |-> type, attempts |-> n, age |-> "new"]
<1>1. mailed \in 0..MaxCodes /\ mailed < MaxCodes /\ mailed' = mailed + 1 /\ MaxCodes \in Nat
  BY AccountsAssumption DEF StoreOtp, AccountInv, AccountsTypeOK
<1>2. o \in Otp /\ o.code = mailed + 1 /\ o.attempts = n
  BY <1>1 DEF Otp, Codes, Ages
<1>3. otpStore' = [otpStore EXCEPT ![e] = o]
  BY DEF StoreOtp
<1> HIDE DEF o
<1>4. otpStore'[e] = o /\ \A f \in Emails \ {e} : otpStore'[f] = otpStore[f]
  BY <1>3 DEF AccountInv, AccountsTypeOK
<1>5. \A f \in Emails : otpStore[f] # None => otpStore[f].code \in Nat /\ otpStore[f].code <= mailed
  BY <1>1 DEF AccountInv, AccountsTypeOK, CodesOK, Otp, Codes
<1>6. confirmations \in [Codes -> Nat] /\ mailed + 1 \in Codes
  BY <1>1 DEF AccountInv, AccountsTypeOK, Codes
<1>7. ASSUME NEW f \in Emails, otpStore'[f] # None
      PROVE  /\ otpStore'[f].code <= mailed'
             /\ confirmations'[otpStore'[f].code] = 0
             /\ otpStore'[f].attempts <= MaxAttempts
  <2>1. CASE f = e
    BY <1>1, <1>2, <1>4, <1>6, <2>1 DEF AccountInv, CodesOK
  <2>2. CASE f # e
    BY <1>1, <1>4, <1>5, <1>7, <2>2 DEF AccountInv, CodesOK
  <2> QED
    BY <2>1, <2>2
<1>8. ASSUME NEW f \in Emails, NEW g \in Emails, f # g, otpStore'[f] # None, otpStore'[g] # None
      PROVE  otpStore'[f].code # otpStore'[g].code
  BY <1>1, <1>2, <1>4, <1>5, <1>8 DEF AccountInv, CodesOK
<1>9. \A k \in Codes : confirmations'[k] <= 1 /\ (k > mailed' => confirmations'[k] = 0)
  BY <1>1 DEF AccountInv, CodesOK, Codes
<1>10. otpStore' \in [Emails -> Otp \cup {None}]
  BY <1>2, <1>3 DEF AccountInv, AccountsTypeOK
<1> QED
  BY <1>1, <1>7, <1>8, <1>9, <1>10 DEF CodesOK

(* An address loses its code, or the code ages or is counted again.        *)
LEMMA ForgetOK ==
  ASSUME AccountInv, UNCHANGED <<mailed, confirmations>>,
         \A e \in Emails : otpStore'[e] # None =>
           /\ otpStore[e] # None /\ otpStore'[e].code = otpStore[e].code
           /\ otpStore'[e].attempts <= MaxAttempts
  PROVE  CodesOK'
BY DEF AccountInv, CodesOK

(* The rest of the state is as it was.                                     *)
LEMMA OtherStep ==
  ASSUME AccountInv, NEW c \in Calls, NEW k \in AccountCall \cup {None},
         acalls' = [acalls EXCEPT ![c] = k],
         UNCHANGED <<profiles, proven, claimed, confirmations>>,
         otpStore' \in [Emails -> Otp \cup {None}], mailed' \in 0..MaxCodes, CodesOK',
         AccountCallOK(k)
  PROVE  AccountInv'
<1>1. AccountCallOK(k)' /\ \A p \in Profiles : RowOK(p)'
  BY DEF AccountInv, AccountCallOK, RowOK, SignInOK, Grounded, AppleLinked
<1>2. /\ acalls' \in [Calls -> AccountCall \cup {None}]
      /\ \A d \in Calls : AccountCallOK(acalls[d])'
  <2>1. ASSUME NEW p \in Profiles PROVE AppleLinked(p) => AppleLinked(p)'
    BY DEF AppleLinked
  <2> QED
    BY <1>1, <2>1, AccountCallStep
<1> QED
  BY <1>1, <1>2 DEF AccountInv, AccountsTypeOK

(* The handlers that start without a code of their own.                    *)
LEMMA AccountStartsOK ==
  ASSUME AccountInv, NEW c \in Calls, NEW e \in Emails
  PROVE  /\ \A n \in Names : Signup(c, e, n) => AccountInv'
         /\ ForgotPassword(c, e) => AccountInv'
         /\ \A k \in Codes : ResetPasswordWithOtp(c, e, k) => AccountInv'
         /\ \A p \in Profiles : DeleteAccount(c, p) => AccountInv'
<1>1. ASSUME NEW n \in Names, Signup(c, e, n) PROVE AccountInv'
  <2> DEFINE call == [at |-> "checkEmail", email |-> e, name |-> n]
  <2>1. call \in AccountCall /\ AccountCallOK(call)
    BY DEF AccountCall, SignupCall, AccountCallOK, SignsIn
  <2> QED
    BY <1>1, <2>1, QuietStep DEF Signup, AStarts
<1>2. ASSUME NEW at \in {"resetCode", "resetProfile"},
             AStarts(c, [at |-> at, email |-> e, attempts |-> 0]),
             UNCHANGED <<profiles, otpStore, mailed, proven, claimed, confirmations>>
      PROVE  AccountInv'
  <2> DEFINE call == [at |-> at, email |-> e, attempts |-> 0]
  <2>1. call \in AccountCall /\ AccountCallOK(call)
    BY DEF AccountCall, CodeCall, AccountCallOK, SignsIn
  <2> QED
    BY <1>2, <2>1, QuietStep DEF AStarts
<1>3. ASSUME ForgotPassword(c, e) PROVE AccountInv'
  BY <1>2, <1>3 DEF ForgotPassword
<1>4. ASSUME NEW k \in Codes, ResetPasswordWithOtp(c, e, k) PROVE AccountInv'
  BY <1>2, <1>4 DEF ResetPasswordWithOtp
<1>5. ASSUME NEW p \in Profiles, DeleteAccount(c, p) PROVE AccountInv'
  <2> DEFINE call == [at |-> "erase", email |-> None, row |-> p]
  <2>1. call \in AccountCall /\ AccountCallOK(call)
    BY <1>5 DEF AccountCall, EraseCall, AccountCallOK, SignsIn, DeleteAccount
  <2> QED
    BY <1>5, <2>1, QuietStep DEF DeleteAccount, AStarts
<1> QED
  BY <1>1, <1>3, <1>4, <1>5

(* A call of a stage is the record of that stage, and what is known of it  *)
(* holds.                                                                  *)
LEMMA CallAt ==
  ASSUME AccountInv, NEW c \in Calls, NEW at, Waits(acalls[c], at)
  PROVE  acalls[c] \in AccountCall /\ acalls[c].at = at /\ AccountCallOK(acalls[c])
BY DEF Waits, AccountInv, AccountsTypeOK

LEMMA OwnerOK ==
  ASSUME AccountInv, NEW e \in Addresses, NEW p \in Owner(e)
  PROVE  p \in Profiles /\ profiles[p] # None /\ profiles[p].email = e
BY DEF Owner, RowIds, AccountInv, AccountsTypeOK

(* The reads between the writes of a handler.                              *)
LEMMA LooksUpOK ==
  ASSUME AccountInv, NEW c \in Calls,
         CheckEmail(c) \/ ReadConfirmed(c) \/ FindProfile(c) \/ FindResetProfile(c)
           \/ FindLinked(c) \/ FindByEmail(c) \/ AccountAbort(c)
  PROVE  AccountInv'
<1>1. ASSUME AEnds(c), UNCHANGED <<profiles, otpStore, mailed, proven, claimed, confirmations>>
      PROVE  AccountInv'
  BY <1>1, QuietStep DEF AEnds, AccountCallOK
<1>2. ASSUME NEW at, AGoes(c, at), [acalls[c] EXCEPT !.at = at] \in AccountCall,
             AccountCallOK([acalls[c] EXCEPT !.at = at]),
             UNCHANGED <<profiles, otpStore, mailed, proven, claimed, confirmations>>
      PROVE  AccountInv'
  <2> DEFINE k == [acalls[c] EXCEPT !.at = at]
  <2>1. acalls' = [acalls EXCEPT ![c] = k]
    BY <1>2 DEF AGoes
  <2>2. k \in AccountCall /\ AccountCallOK(k)
    BY <1>2
  <2> HIDE DEF k
  <2> QED
    BY <1>2, <2>1, <2>2, QuietStep
<1>3. CASE CheckEmail(c)
  <2>1. acalls[c] \in SignupCall
    BY <1>3, CallAt, AccountCallKinds DEF CheckEmail
  <2>2. /\ [acalls[c] EXCEPT !.at = "hash"] \in AccountCall
        /\ AccountCallOK([acalls[c] EXCEPT !.at = "hash"])
    BY <2>1 DEF AccountCall, SignupCall, AccountCallOK, SignsIn
  <2> QED
    BY <1>1, <1>2, <1>3, <2>2 DEF CheckEmail
<1>4. CASE ReadConfirmed(c)
  <2>1. acalls[c] \in CodeCall /\ acalls[c].at = "resend" /\ AccountCallOK(acalls[c])
    BY <1>4, CallAt, AccountCallKinds DEF ReadConfirmed
  <2>2. acalls[c].attempts < MaxAttempts /\ acalls[c] # None
    BY <2>1, AccountsAssumption DEF AccountCallOK, AccountCall
  <2>3. PICK at \in {"resendRefused", "resendCode"} : AGoes(c, at)
    BY <1>4 DEF ReadConfirmed
  <2>4. /\ [acalls[c] EXCEPT !.at = at] \in AccountCall
        /\ AccountCallOK([acalls[c] EXCEPT !.at = at])
    BY <2>1, <2>2 DEF AccountCall, CodeCall, AccountCallOK, SignsIn
  <2> QED
    BY <1>2, <1>4, <2>3, <2>4 DEF ReadConfirmed
<1>5. CASE FindProfile(c)
  <2>1. acalls[c] \in CodeCall /\ acalls[c].email \in proven
    BY <1>5, CallAt, AccountCallKinds DEF FindProfile, Waits, AccountCallOK
  <2> DEFINE e == acalls[c].email
  <2>2. CASE Owner(e) = {}
    BY <1>1, <1>5, <2>2 DEF FindProfile
  <2>3. CASE Owner(e) # {}
    <3>1. PICK p \in Owner(e) : acalls' = [acalls EXCEPT ![c] = [at |-> "confirm", email |-> e, row |-> p]]
      BY <1>5, <2>3 DEF FindProfile
    <3> DEFINE k == [at |-> "confirm", email |-> e, row |-> p]
    <3>2. e \in Emails /\ e \in Addresses
      BY <2>1 DEF CodeCall, Addresses
    <3>3. k \in AccountCall
      BY <3>2, OwnerOK DEF AccountCall, ConfirmCall
    <3>4. AccountCallOK(k)
      BY <2>1, <3>2, OwnerOK DEF AccountCallOK, SignsIn, Grounded
    <3> HIDE DEF k, e
    <3>5. acalls' = [acalls EXCEPT ![c] = k]
      BY <3>1 DEF k
    <3> QED
      BY <1>5, <3>3, <3>4, <3>5, QuietStep DEF FindProfile
  <2> QED
    BY <2>2, <2>3
<1>6. CASE FindResetProfile(c)
  <2>1. acalls[c] \in CodeCall
    BY <1>6, CallAt, AccountCallKinds DEF FindResetProfile, Waits
  <2> DEFINE e == acalls[c].email
  <2>2. CASE Owner(e) = {}
    BY <1>1, <1>6, <2>2 DEF FindResetProfile
  <2>3. CASE Owner(e) # {}
    <3>1. PICK p \in Owner(e) :
            acalls' = [acalls EXCEPT ![c] = [at |-> "resetWrite", email |-> e, row |-> p]]
      BY <1>6, <2>3 DEF FindResetProfile
    <3> DEFINE k == [at |-> "resetWrite", email |-> e, row |-> p]
    <3>2. e \in Emails /\ e \in Addresses
      BY <2>1 DEF CodeCall, Addresses
    <3>3. k \in AccountCall
      BY <3>2, OwnerOK DEF AccountCall, ResetCall
    <3>4. AccountCallOK(k)
      BY <3>2, OwnerOK DEF AccountCallOK, SignsIn
    <3> HIDE DEF k, e
    <3>5. acalls' = [acalls EXCEPT ![c] = k]
      BY <3>1 DEF k
    <3> QED
      BY <1>6, <3>3, <3>4, <3>5, QuietStep DEF FindResetProfile
  <2> QED
    BY <2>2, <2>3
<1>7. CASE FindLinked(c)
  <2>1. acalls[c] \in ProviderCall /\ SignInOK(acalls[c])
    BY <1>7, CallAt, AccountCallKinds DEF FindLinked, Waits, AccountCallOK, SignsIn
  <2>2. ASSUME NEW at \in {"findByEmail", "createLinked"}
        PROVE  /\ [acalls[c] EXCEPT !.at = at] \in AccountCall
               /\ AccountCallOK([acalls[c] EXCEPT !.at = at])
    BY <2>1 DEF AccountCall, ProviderCall, AccountCallOK, SignsIn, SignInOK
  <2> QED
    BY <1>1, <1>2, <1>7, <2>2 DEF FindLinked
<1>8. CASE FindByEmail(c)
  <2>1. acalls[c] \in ProviderCall /\ SignInOK(acalls[c])
    BY <1>8, CallAt, AccountCallKinds DEF FindByEmail, Waits, AccountCallOK, SignsIn
  <2>2. /\ [acalls[c] EXCEPT !.at = "createLinked"] \in AccountCall
        /\ AccountCallOK([acalls[c] EXCEPT !.at = "createLinked"])
    BY <2>1 DEF AccountCall, ProviderCall, AccountCallOK, SignsIn, SignInOK
  <2> DEFINE e == acalls[c].email
  <2>3. CASE AGoes(c, "createLinked")
    BY <1>2, <1>8, <2>2, <2>3 DEF FindByEmail
  <2>4. CASE ~AGoes(c, "createLinked")
    <3>1. PICK p \in Owner(e) : acalls' = [acalls EXCEPT ![c] =
                [at |-> "link", email |-> e, provider |-> acalls[c].provider,
                 subject |-> acalls[c].subject, row |-> p]]
      BY <1>8, <2>4 DEF FindByEmail
    <3> DEFINE k == [at |-> "link", email |-> e, provider |-> acalls[c].provider,
                     subject |-> acalls[c].subject, row |-> p]
    <3>2. e \in Addresses /\ acalls[c].provider \in Providers /\ acalls[c].subject \in Subjects
      BY <2>1 DEF ProviderCall
    <3>3. k \in AccountCall
      BY <3>2, OwnerOK DEF AccountCall, LinkCall
    <3>4. AccountCallOK(k)
      BY <2>1, <3>2, OwnerOK DEF AccountCallOK, SignsIn, SignInOK
    <3> HIDE DEF k, e
    <3>5. acalls' = [acalls EXCEPT ![c] = k]
      BY <3>1 DEF k
    <3> QED
      BY <1>8, <3>3, <3>4, <3>5, QuietStep DEF FindByEmail
  <2> QED
    BY <2>3, <2>4
<1>9. CASE AccountAbort(c)
  BY <1>1, <1>9 DEF AccountAbort
<1> QED
  BY <1>3, <1>4, <1>5, <1>6, <1>7, <1>8, <1>9

(* The codes that are mailed.                                              *)
LEMMA MailsOK ==
  ASSUME AccountInv, NEW c \in Calls, MailSignupCode(c) \/ MailAgain(c) \/ MailResetCode(c)
  PROVE  AccountInv'
<1> USE AccountsAssumption
<1>1. CASE MailSignupCode(c)
  <2>1. acalls[c] \in SignupCall
    BY <1>1, CallAt, AccountCallKinds DEF MailSignupCode
  <2> DEFINE k == [acalls[c] EXCEPT !.at = "create"]
  <2>2. k \in AccountCall /\ AccountCallOK(k) /\ acalls[c].email \in Emails
    BY <2>1 DEF AccountCall, SignupCall, AccountCallOK, SignsIn
  <2>3. acalls' = [acalls EXCEPT ![c] = k]
    BY <1>1 DEF MailSignupCode, AGoes
  <2> HIDE DEF k
  <2>4. /\ otpStore' \in [Emails -> Otp \cup {None}] /\ mailed' \in 0..MaxCodes
        /\ CodesOK'
    BY <1>1, <2>2, StoreOtpOK DEF MailSignupCode
  <2> QED
    BY <1>1, <2>2, <2>3, <2>4, OtherStep DEF MailSignupCode
<1>2. CASE MailAgain(c)
  <2>1. acalls[c] \in CodeCall /\ AccountCallOK(acalls[c]) /\ acalls[c] # None
        /\ acalls[c].at \in {"resendRefused", "resendCode"}
    BY <1>2, CallAt, AccountCallKinds DEF MailAgain, Waits
  <2>2. acalls[c].email \in Emails /\ acalls[c].attempts + 1 \in Nat
        /\ acalls[c].attempts + 1 <= MaxAttempts
    BY <2>1 DEF CodeCall, AccountCallOK
  <2>3. AccountCallOK(None)
    BY DEF AccountCallOK
  <2>4. acalls' = [acalls EXCEPT ![c] = None]
    BY <1>2 DEF MailAgain, AEnds
  <2>5. CASE UNCHANGED <<otpStore, mailed>>
    BY <1>2, <2>3, <2>4, <2>5, QuietStep DEF MailAgain
  <2>6. CASE StoreOtp(acalls[c].email, "signup", acalls[c].attempts + 1)
    <3>1. /\ otpStore' \in [Emails -> Otp \cup {None}] /\ mailed' \in 0..MaxCodes
          /\ CodesOK'
      BY <1>2, <2>2, <2>6, StoreOtpOK DEF MailAgain
    <3> QED
      BY <1>2, <2>3, <2>4, <3>1, OtherStep DEF MailAgain
  <2> QED
    BY <1>2, <2>5, <2>6 DEF MailAgain
<1>3. CASE MailResetCode(c)
  <2>1. acalls[c] \in CodeCall /\ acalls[c].email \in Emails
    BY <1>3, CallAt, AccountCallKinds DEF MailResetCode, CodeCall
  <2>2. /\ otpStore' \in [Emails -> Otp \cup {None}] /\ mailed' \in 0..MaxCodes
        /\ CodesOK'
    BY <1>3, <2>1, StoreOtpOK DEF MailResetCode
  <2>3. AccountCallOK(None)
    BY DEF AccountCallOK
  <2> QED
    BY <1>3, <2>2, <2>3, OtherStep DEF MailResetCode, AEnds
<1> QED
  BY <1>1, <1>2, <1>3

(* A resend counts in the entry of the address before it mails.            *)
LEMMA ResendOK ==
  ASSUME AccountInv, NEW c \in Calls, NEW e \in Emails, ResendOtp(c, e)
  PROVE  AccountInv'
<1> DEFINE o == otpStore[e]
           spent == IF o = None \/ AtLimit(o) THEN 0 ELSE o.attempts
           k == [at |-> "resend", email |-> e, attempts |-> spent]
<1>1. o # None => o \in Otp
  BY DEF AccountInv, AccountsTypeOK
<1>2. spent \in Nat /\ spent < MaxAttempts
  BY <1>1, AccountsAssumption DEF AtLimit, Otp
<1>3. k \in AccountCall /\ AccountCallOK(k)
  BY <1>2 DEF AccountCall, CodeCall, AccountCallOK, SignsIn
<1>4. acalls' = [acalls EXCEPT ![c] = k]
  BY DEF ResendOtp, AStarts
<1>5. otpStore' = IF o = None THEN otpStore ELSE [otpStore EXCEPT ![e].attempts = spent]
  BY DEF ResendOtp
<1> HIDE DEF k, spent
<1>6. ASSUME NEW f \in Emails
      PROVE  /\ otpStore'[f] \in Otp \cup {None}
             /\ otpStore'[f] # None =>
                  /\ otpStore[f] # None /\ otpStore'[f].code = otpStore[f].code
                  /\ otpStore'[f].attempts <= MaxAttempts
  <2>1. CASE f = e /\ o # None
    <3>1. otpStore'[f] = [o EXCEPT !.attempts = spent]
      BY <1>5, <2>1 DEF AccountInv, AccountsTypeOK
    <3> QED
      BY <1>1, <1>2, <2>1, <3>1, AccountsAssumption DEF Otp
  <2>2. CASE ~(f = e /\ o # None)
    <3>1. otpStore'[f] = otpStore[f]
      BY <1>5, <2>2 DEF AccountInv, AccountsTypeOK
    <3> QED
      BY <3>1 DEF AccountInv, AccountsTypeOK, CodesOK
  <2> QED
    BY <2>1, <2>2
<1>7. UNCHANGED <<profiles, mailed, proven, claimed, confirmations>>
  BY DEF ResendOtp
<1>8. CodesOK'
  BY <1>6, <1>7, ForgetOK
<1>9. otpStore' \in [Emails -> Otp \cup {None}] /\ mailed' \in 0..MaxCodes
  BY <1>5, <1>6, <1>7 DEF AccountInv, AccountsTypeOK
<1> QED
  BY <1>3, <1>4, <1>7, <1>8, <1>9, OtherStep

(* A code taken as right is gone in the same step.                         *)
LEMMA VerifyOtpOK ==
  ASSUME AccountInv, NEW c \in Calls, NEW e \in Emails, NEW code \in Codes, VerifyOtp(c, e, code)
  PROVE  AccountInv'
<1> DEFINE k == [at |-> "findProfile", email |-> e, attempts |-> 0]
<1>1. otpStore[e] # None /\ otpStore[e].code = code /\ confirmations[code] = 0 /\ code <= mailed
  BY DEF VerifyOtp, Right, AccountInv, CodesOK
<1>2. /\ otpStore' = [otpStore EXCEPT ![e] = None]
      /\ acalls' = [acalls EXCEPT ![c] = k]
      /\ UNCHANGED <<profiles, mailed>>
  BY DEF VerifyOtp, AStarts
<1>3. /\ proven \subseteq proven' /\ proven' \subseteq Emails /\ e \in proven'
      /\ UNCHANGED claimed
  BY <1>1 DEF VerifyOtp, MailedTo, AccountInv, AccountsTypeOK
<1>4. /\ confirmations' \in [Codes -> Nat] /\ confirmations'[code] = 1
      /\ \A n \in Codes \ {code} : confirmations'[n] = confirmations[n]
  BY <1>1 DEF VerifyOtp, AccountInv, AccountsTypeOK
<1>5. k \in AccountCall /\ AccountCallOK(k)'
  BY <1>3 DEF AccountCall, CodeCall, AccountCallOK, SignsIn
<1> HIDE DEF k
<1>6. /\ acalls' \in [Calls -> AccountCall \cup {None}]
      /\ \A d \in Calls : AccountCallOK(acalls[d])'
  <2>1. \A p \in Profiles : profiles[p] # None =>
          /\ profiles'[p] # None /\ profiles'[p].email \in {profiles[p].email, None}
          /\ AppleLinked(p) => AppleLinked(p)'
    BY <1>2 DEF AppleLinked
  <2> QED
    BY <1>2, <1>3, <1>5, <2>1, AccountCallStep
<1>7. \A p \in Profiles : RowOK(p)'
  BY <1>2, <1>3 DEF AccountInv, RowOK, Grounded, AppleLinked
<1>8. CodesOK'
  <2>1. otpStore'[e] = None /\ \A f \in Emails \ {e} : otpStore'[f] = otpStore[f]
    BY <1>2 DEF AccountInv, AccountsTypeOK
  <2>2. \A f \in Emails \ {e} : otpStore[f] # None =>
          otpStore[f].code # code /\ otpStore[f].code \in Codes
    BY <1>1 DEF AccountInv, CodesOK, AccountsTypeOK, Otp
  <2>3. mailed \in Nat /\ \A n \in Codes : n \in Nat
    BY DEF AccountInv, AccountsTypeOK, Codes
  <2>4. \A f \in Emails : otpStore'[f] # None =>
          /\ otpStore'[f].code <= mailed'
          /\ confirmations'[otpStore'[f].code] = 0
          /\ otpStore'[f].attempts <= MaxAttempts
    BY <1>2, <1>4, <2>1, <2>2 DEF AccountInv, CodesOK
  <2>5. \A f, g \in Emails :
          f # g /\ otpStore'[f] # None /\ otpStore'[g] # None => otpStore'[f].code # otpStore'[g].code
    BY <2>1 DEF AccountInv, CodesOK
  <2>6. \A n \in Codes : confirmations'[n] <= 1 /\ (n > mailed' => confirmations'[n] = 0)
    BY <1>1, <1>2, <1>4, <2>3 DEF AccountInv, CodesOK
  <2> QED
    BY <2>4, <2>5, <2>6 DEF CodesOK
<1>9. otpStore' \in [Emails -> Otp \cup {None}]
  BY <1>2 DEF AccountInv, AccountsTypeOK
<1> QED
  BY <1>2, <1>3, <1>4, <1>6, <1>7, <1>8, <1>9 DEF AccountInv, AccountsTypeOK

LEMMA ClearOtpOK ==
  ASSUME AccountInv, NEW c \in Calls, ClearOtp(c)
  PROVE  AccountInv'
<1>1. UNCHANGED <<profiles, mailed, proven, claimed, confirmations>>
  BY DEF ClearOtp
<1>2. /\ otpStore' \in [Emails -> Otp \cup {None}]
      /\ \A e \in Emails : otpStore'[e] \in {otpStore[e], None}
  BY DEF ClearOtp, AccountInv, AccountsTypeOK
<1>3. CodesOK'
  <2>1. ASSUME NEW e \in Emails, otpStore'[e] # None
        PROVE  /\ otpStore[e] # None /\ otpStore'[e].code = otpStore[e].code
               /\ otpStore'[e].attempts <= MaxAttempts
    BY <1>2, <2>1 DEF AccountInv, CodesOK
  <2> QED
    BY <1>1, <2>1, ForgetOK
<1>4. AccountCallOK(None)
  BY DEF AccountCallOK
<1>5. acalls' = [acalls EXCEPT ![c] = None] /\ mailed' \in 0..MaxCodes
  BY <1>1 DEF ClearOtp, AEnds, AccountInv, AccountsTypeOK
<1> QED
  BY <1>1, <1>2, <1>3, <1>4, <1>5, OtherStep

(* A sign-in, its address from a token or from the client of Apple's.      *)
LEMMA SignInStarts ==
  ASSUME AccountInv, NEW c \in Calls, NEW e \in Addresses, NEW provider \in Providers,
         NEW subject \in Subjects,
         \/ e \in Emails /\ ProviderSignIn(c, provider, subject, e)
         \/ provider = "apple" /\ AppleSignIn(c, subject, e)
  PROVE  AccountInv'
<1> DEFINE k == [at |-> "findLinked", email |-> e, provider |-> provider, subject |-> subject]
<1>1. /\ UNCHANGED <<profiles, otpStore, mailed, confirmations>>
      /\ acalls' = [acalls EXCEPT ![c] = k]
  BY DEF ProviderSignIn, AppleSignIn, StartsSignIn, AStarts
<1>2. /\ proven \subseteq proven' /\ proven' \subseteq Emails
      /\ claimed \subseteq claimed' /\ claimed' \subseteq Emails
      /\ e \in proven' \/ e = NoAddress \/ (e \in claimed' /\ provider = "apple")
  BY DEF ProviderSignIn, AppleSignIn, Addresses, AccountInv, AccountsTypeOK
<1>3. k \in AccountCall /\ AccountCallOK(k)'
  BY <1>2 DEF AccountCall, ProviderCall, AccountCallOK, SignInOK, SignsIn
<1> HIDE DEF k
<1>4. /\ acalls' \in [Calls -> AccountCall \cup {None}]
      /\ \A d \in Calls : AccountCallOK(acalls[d])'
  <2>1. \A p \in Profiles : profiles[p] # None =>
          /\ profiles'[p] # None /\ profiles'[p].email \in {profiles[p].email, None}
          /\ AppleLinked(p) => AppleLinked(p)'
    BY <1>1 DEF AppleLinked
  <2> QED
    BY <1>1, <1>2, <1>3, <2>1, AccountCallStep
<1>5. CodesOK' /\ \A p \in Profiles : RowOK(p)'
  BY <1>1, <1>2 DEF AccountInv, CodesOK, RowOK, Grounded, AppleLinked
<1> QED
  BY <1>1, <1>2, <1>4, <1>5 DEF AccountInv, AccountsTypeOK

----------------------------------------------------------------------------
(* The writes of a profile.                                                *)

(* A handler that ends knows nothing; a row that is free takes any row     *)
(* that is not confirmed.                                                  *)
LEMMA NewRowOK ==
  ASSUME AccountInv, NEW e \in Addresses, NEW n \in Names \cup Profiles, NEW secret \in BOOLEAN,
         NEW subs \in [Providers -> Subjects \cup {None}]
  PROVE  /\ NewRow(e, n, secret, subs) \in ProfileRow
         /\ ~NewRow(e, n, secret, subs).confirmed
         /\ NewRow(e, n, secret, subs).email = e
         /\ NewRow(e, n, secret, subs).subs = subs
BY DEF NewRow, ProfileRow

LEMMA FreeOK ==
  ASSUME AccountInv, NEW p \in FreeIds(profiles)
  PROVE  p \in Profiles /\ profiles[p] = None
BY DEF FreeIds, RowIds, AccountInv, AccountsTypeOK

LEMMA CreateOK ==
  ASSUME AccountInv, NEW c \in Calls, CreateProfile(c) \/ CreateProfileAgain(c)
  PROVE  AccountInv'
<1>1. acalls[c] \in SignupCall
  BY CallAt, AccountCallKinds DEF CreateProfile, CreateProfileAgain
<1>2. acalls[c].email \in Emails /\ acalls[c].name \in Names
  BY <1>1 DEF SignupCall
<1>3. UNCHANGED <<otpStore, mailed, proven, claimed, confirmations>>
  BY DEF CreateProfile, CreateProfileAgain
<1>4. ASSUME AEnds(c), NEW p \in FreeIds(profiles), NEW n \in Names \cup Profiles,
             NEW secret \in BOOLEAN,
             profiles' = [profiles EXCEPT ![p] = NewRow(acalls[c].email, n, secret, NoSubs)]
      PROVE  AccountInv'
  <2> DEFINE r == NewRow(acalls[c].email, n, secret, NoSubs)
  <2>1. r \in ProfileRow /\ ~r.confirmed
    <3>1. NoSubs \in [Providers -> Subjects \cup {None}] /\ acalls[c].email \in Addresses
      BY <1>2 DEF NoSubs, Addresses
    <3> QED
      BY <3>1, NewRowOK
  <2>2. p \in Profiles /\ profiles[p] = None
    BY FreeOK
  <2>3. acalls' = [acalls EXCEPT ![c] = None] /\ AccountCallOK(None)'
    BY <1>4 DEF AEnds, AccountCallOK
  <2> HIDE DEF r
  <2>4. profiles' = [profiles EXCEPT ![p] = r]
    BY <1>4 DEF r
  <2> QED
    BY <1>3, <2>1, <2>2, <2>3, <2>4, WriteRowStep
<1>5. ASSUME AEnds(c), UNCHANGED profiles PROVE AccountInv'
  BY <1>3, <1>5, QuietStep DEF AEnds, AccountCallOK
<1>6. ASSUME AGoes(c, "createAgain"), UNCHANGED profiles PROVE AccountInv'
  <2> DEFINE k == [acalls[c] EXCEPT !.at = "createAgain"]
  <2>1. k \in AccountCall /\ AccountCallOK(k)
    BY <1>1 DEF AccountCall, SignupCall, AccountCallOK, SignsIn
  <2>2. acalls' = [acalls EXCEPT ![c] = k]
    BY <1>6 DEF AGoes
  <2> HIDE DEF k
  <2> QED
    BY <1>3, <1>6, <2>1, <2>2, QuietStep
<1>7. CASE CreateProfile(c)
  <2>1. CASE NameTaken(acalls[c].name) \/ Owner(acalls[c].email) # {}
    BY <1>6, <1>7, <2>1 DEF CreateProfile
  <2>2. CASE ~(NameTaken(acalls[c].name) \/ Owner(acalls[c].email) # {})
    <3>1. PICK p \in FreeIds(profiles) :
            profiles' = [profiles EXCEPT ![p] = NewRow(acalls[c].email, acalls[c].name, TRUE, NoSubs)]
      BY <1>7, <2>2 DEF CreateProfile
    <3>2. AEnds(c)
      BY <1>7, <2>2 DEF CreateProfile
    <3> QED
      BY <1>2, <1>4, <3>1, <3>2
  <2> QED
    BY <2>1, <2>2
<1>8. CASE CreateProfileAgain(c)
  <2>1. AEnds(c)
    BY <1>8 DEF CreateProfileAgain
  <2>2. CASE Owner(acalls[c].email) # {}
    BY <1>5, <1>8, <2>1, <2>2 DEF CreateProfileAgain
  <2>3. CASE Owner(acalls[c].email) = {}
    <3>1. PICK p \in FreeIds(profiles) :
            profiles' = [profiles EXCEPT ![p] = NewRow(acalls[c].email, p, FALSE, NoSubs)]
      BY <1>8, <2>3 DEF CreateProfileAgain
    <3>2. p \in Profiles
      BY FreeOK
    <3> QED
      BY <1>4, <2>1, <3>1, <3>2
  <2> QED
    BY <2>2, <2>3
<1> QED
  BY <1>7, <1>8

(* The updates by id of a row that is there.                               *)
LEMMA UpdatesOK ==
  ASSUME AccountInv, NEW c \in Calls,
         ConfirmEmail(c) \/ WritePassword(c) \/ LinkProvider(c) \/ EraseProfile(c)
  PROVE  AccountInv'
<1> DEFINE k == acalls[c]
           p == k.row
<1>1. /\ k \in AccountCall /\ AccountCallOK(k) /\ k # None
      /\ k.at \in {"confirm", "resetWrite", "link", "erase"}
  BY CallAt DEF ConfirmEmail, WritePassword, LinkProvider, EraseProfile, Waits
<1>2. /\ p \in Profiles /\ profiles[p] # None /\ profiles[p] \in ProfileRow
      /\ k.at \in {"confirm", "link"} => profiles[p].email \in {k.email, None}
      /\ k.at = "confirm" => k.email = NoAddress \/ Grounded(k.email, p)
      /\ k.at = "link" => SignInOK(k)
      /\ None \notin Emails /\ NoAddress \notin Emails
  BY <1>1, AccountCallKinds, AccountsAssumption
     DEF AccountCallOK, SignsIn, Addresses, AccountInv, AccountsTypeOK
<1>3. UNCHANGED <<otpStore, mailed, proven, claimed, confirmations>>
  BY DEF ConfirmEmail, WritePassword, LinkProvider, EraseProfile
<1>4. RowOK(p)
  BY <1>2 DEF AccountInv
<1>5. ASSUME NEW r \in ProfileRow, profiles' = [profiles EXCEPT ![p] = r],
             r.email \in {profiles[p].email, None},
             AppleLinked(p) => r.subs["apple"] # None,
             r.confirmed /\ r.email \in Emails =>
               r.email \in proven \/ (r.email \in claimed /\ r.subs["apple"] # None),
             acalls' = [acalls EXCEPT ![c] = None]
      PROVE  AccountInv'
  <2>1. AccountCallOK(None)'
    BY DEF AccountCallOK
  <2> HIDE DEF k, p
  <2> QED
    BY <1>2, <1>3, <1>5, <2>1, WriteRowStep
<1>6. CASE ConfirmEmail(c)
  <2> DEFINE r == [profiles[p] EXCEPT !.confirmed = TRUE]
  <2>1. r \in ProfileRow /\ r.email = profiles[p].email /\ r.subs = profiles[p].subs
    BY <1>2 DEF ProfileRow
  <2>2. r.email \in Emails =>
          r.email \in proven \/ (r.email \in claimed /\ r.subs["apple"] # None)
    BY <1>2, <1>6, <2>1 DEF ConfirmEmail, Waits, Grounded, AppleLinked
  <2>4. AppleLinked(p) => r.subs["apple"] # None
    BY <2>1 DEF AppleLinked
  <2>3. profiles' = [profiles EXCEPT ![p] = r] /\ acalls' = [acalls EXCEPT ![c] = None]
    BY <1>6 DEF ConfirmEmail, AEnds
  <2> HIDE DEF r, k, p
  <2> QED
    BY <1>5, <2>1, <2>2, <2>3, <2>4
<1>7. CASE EraseProfile(c)
  <2> DEFINE r == [profiles[p] EXCEPT !.email = None, !.name = p]
  <2>1. r \in ProfileRow /\ r.email = None /\ r.subs = profiles[p].subs
    BY <1>2 DEF ProfileRow
  <2>3. r.email \notin Emails /\ (AppleLinked(p) => r.subs["apple"] # None)
    BY <1>2, <2>1 DEF AppleLinked
  <2>2. profiles' = [profiles EXCEPT ![p] = r] /\ acalls' = [acalls EXCEPT ![c] = None]
    BY <1>2, <1>7 DEF EraseProfile, AEnds, AccountInv, AccountsTypeOK
  <2> HIDE DEF r, k, p
  <2> QED
    BY <1>5, <2>1, <2>2, <2>3
<1>8. CASE LinkProvider(c)
  <2>1. k \in LinkCall /\ k.at = "link"
    BY <1>1, <1>8, AccountCallKinds DEF LinkProvider, Waits
  <2>2. CASE Linked(k.provider, k.subject) \subseteq {p}
    <3>4. k.provider \in Providers /\ k.subject \in Subjects /\ k.subject # None
      BY <2>1, AccountsAssumption DEF LinkCall
    <3>5. profiles[p].subs \in [Providers -> Subjects \cup {None}]
      BY <1>2 DEF ProfileRow
    <3>6. PICK subs \in [Providers -> Subjects \cup {None}] :
            subs = [profiles[p].subs EXCEPT ![k.provider] = k.subject]
      BY <3>4, <3>5
    <3>7. /\ k.provider = "apple" => subs["apple"] # None
          /\ profiles[p].subs["apple"] # None => subs["apple"] # None
      BY <3>4, <3>5, <3>6 DEF Providers
    <3> DEFINE r == [profiles[p] EXCEPT !.subs = subs, !.confirmed = TRUE]
    <3>1. r \in ProfileRow /\ r.email = profiles[p].email /\ r.subs = subs
      BY <1>2 DEF ProfileRow
    <3>2. r.email \in Emails =>
            r.email \in proven \/ (r.email \in claimed /\ r.subs["apple"] # None)
      BY <1>2, <2>1, <3>1, <3>7 DEF SignInOK
    <3>3. profiles' = [profiles EXCEPT ![p] = r] /\ acalls' = [acalls EXCEPT ![c] = None]
      <4>1. profiles' = [profiles EXCEPT ![p] = [profiles[p] EXCEPT
              !.subs = [profiles[p].subs EXCEPT ![k.provider] = k.subject], !.confirmed = TRUE]]
        BY <1>2, <1>8, <2>2 DEF LinkProvider, AccountInv, AccountsTypeOK
      <4>2. acalls' = [acalls EXCEPT ![c] = None]
        BY <1>8 DEF LinkProvider, AEnds
      <4> QED
        BY <3>6, <4>1, <4>2
    <3>8. AppleLinked(p) => r.subs["apple"] # None
      BY <3>1, <3>7 DEF AppleLinked
    <3> HIDE DEF r, k, p
    <3> QED
      BY <1>5, <3>1, <3>2, <3>3, <3>8
  <2>3. CASE ~(Linked(k.provider, k.subject) \subseteq {p})
    BY <1>3, <1>8, <2>3, QuietStep DEF LinkProvider, AEnds, AccountCallOK
  <2> QED
    BY <2>2, <2>3
<1>9. CASE WritePassword(c)
  <2>1. k \in ResetCall
    BY <1>1, <1>9, AccountCallKinds DEF WritePassword, Waits
  <2>2. PICK e \in Emails : e = k.email
    BY <2>1 DEF ResetCall
  <2> DEFINE r == [profiles[p] EXCEPT !.secret = TRUE]
             next == [at |-> "resetClear", email |-> e, attempts |-> 0]
  <2>3. /\ r \in ProfileRow /\ r.email = profiles[p].email /\ r.confirmed = profiles[p].confirmed
        /\ r.subs = profiles[p].subs
    BY <1>2 DEF ProfileRow
  <2>4. next \in AccountCall /\ AccountCallOK(next)'
    BY DEF AccountCall, CodeCall, AccountCallOK, SignsIn
  <2>5. profiles' = [profiles EXCEPT ![p] = r] /\ acalls' = [acalls EXCEPT ![c] = next]
    BY <1>9, <2>2 DEF WritePassword, AccountInv, AccountsTypeOK
  <2>6. r.confirmed /\ r.email \in Emails =>
          r.email \in proven \/ (r.email \in claimed /\ r.subs["apple"] # None)
    BY <1>2, <1>4, <2>3 DEF RowOK, Grounded, AppleLinked
  <2>7. r.email \in {profiles[p].email, None} /\ (AppleLinked(p) => r.subs["apple"] # None)
    BY <2>3 DEF AppleLinked
  <2> HIDE DEF r, k, p, next
  <2> QED
    BY <1>2, <1>3, <2>3, <2>4, <2>5, <2>6, <2>7, WriteRowStep
<1> QED
  BY <1>6, <1>7, <1>8, <1>9

(* A new row of a provider is confirmed by a statement of its own.         *)
LEMMA CreateLinkedOK ==
  ASSUME AccountInv, NEW c \in Calls, CreateLinked(c)
  PROVE  AccountInv'
<1>1. acalls[c] \in ProviderCall /\ SignInOK(acalls[c])
  BY CallAt, AccountCallKinds DEF CreateLinked, Waits, AccountCallOK, SignsIn
<1>2. PICK e \in Addresses, provider \in Providers, subject \in Subjects :
        e = acalls[c].email /\ provider = acalls[c].provider /\ subject = acalls[c].subject
  BY <1>1 DEF ProviderCall
<1>6. PICK subs \in [Providers -> Subjects \cup {None}] :
        /\ subs = [NoSubs EXCEPT ![provider] = subject]
        /\ provider = "apple" => subs["apple"] # None
  <2>1. NoSubs \in [Providers -> Subjects \cup {None}] /\ subject # None
    BY <1>2, AccountsAssumption DEF NoSubs
  <2>2. PICK subs : subs = [NoSubs EXCEPT ![provider] = subject]
    OBVIOUS
  <2>3. subs \in [Providers -> Subjects \cup {None}] /\ subs[provider] = subject
    BY <2>1, <2>2
  <2> QED
    BY <2>1, <2>2, <2>3
<1>3. UNCHANGED <<otpStore, mailed, proven, claimed, confirmations>>
  BY DEF CreateLinked
<1>4. CASE AEnds(c) /\ UNCHANGED profiles
  BY <1>3, <1>4, QuietStep DEF AEnds, AccountCallOK
<1>5. CASE ~(AEnds(c) /\ UNCHANGED profiles)
  <2>1. PICK p \in FreeIds(profiles) :
          /\ profiles' = [profiles EXCEPT ![p] = NewRow(e, p, FALSE, subs)]
          /\ acalls' = [acalls EXCEPT ![c] = [at |-> "confirm", email |-> e, row |-> p]]
    BY <1>2, <1>5, <1>6 DEF CreateLinked
  <2> DEFINE r == NewRow(e, p, FALSE, subs)
             k == [at |-> "confirm", email |-> e, row |-> p]
  <2>2. p \in Profiles /\ profiles[p] = None
    BY FreeOK
  <2>3. r \in ProfileRow /\ ~r.confirmed /\ r.email = e /\ r.subs = subs
    BY <1>2, <1>6, <2>2 DEF NewRow, ProfileRow
  <2>4. profiles'[p] = r /\ r # None
    BY <2>1, <2>2, <2>3, AccountsAssumption DEF AccountInv, AccountsTypeOK
  <2>5. k \in AccountCall /\ AccountCallOK(k)'
    <3>1. k \in AccountCall
      BY <1>2, <2>2 DEF AccountCall, ConfirmCall
    <3>2. e = NoAddress \/ Grounded(e, p)'
      BY <1>1, <1>2, <1>3, <1>6, <2>3, <2>4 DEF SignInOK, Grounded, AppleLinked
    <3> QED
      BY <2>3, <2>4, <3>1, <3>2 DEF AccountCallOK, SignsIn
  <2>6. profiles' = [profiles EXCEPT ![p] = r] /\ acalls' = [acalls EXCEPT ![c] = k]
    BY <2>1
  <2> HIDE DEF r, k
  <2> QED
    BY <1>3, <2>2, <2>3, <2>5, <2>6, WriteRowStep
<1> QED
  BY <1>4, <1>5

----------------------------------------------------------------------------

LEMMA AccountsInitOK == AccountsInit => AccountInv
<1> SUFFICES ASSUME AccountsInit PROVE AccountInv
  OBVIOUS
<1>1. AccountsTypeOK
  BY AccountsAssumption DEF AccountsInit, AccountsTypeOK, Codes
<1>2. CodesOK
  BY AccountsAssumption DEF AccountsInit, CodesOK
<1> QED
  BY <1>1, <1>2 DEF AccountsInit, AccountInv, RowOK, AccountCallOK

(* The clock, sendOtp and a restart, which are no handler's.               *)
LEMMA CodesMoveOK ==
  ASSUME AccountInv, Restart \/ \E e \in Emails : TimePasses(e) \/ SendOtp(e)
  PROVE  AccountInv'
<1> USE AccountsAssumption
<1>1. UNCHANGED <<profiles, proven, claimed, confirmations>>
  BY DEF Restart, TimePasses, SendOtp
<1>2. \A p \in Profiles : RowOK(p)'
  BY <1>1 DEF AccountInv, RowOK, Grounded, AppleLinked
<1>3. /\ acalls' \in [Calls -> AccountCall \cup {None}]
      /\ \A c \in Calls : AccountCallOK(acalls[c])'
  <2>1. CASE Restart
    BY <2>1 DEF Restart, AccountCallOK
  <2>2. CASE UNCHANGED acalls
    BY <1>1, <2>2 DEF AccountInv, AccountsTypeOK, AccountCallOK, SignInOK, Grounded, AppleLinked
  <2> QED
    BY <2>1, <2>2 DEF TimePasses, SendOtp
<1>4. otpStore' \in [Emails -> Otp \cup {None}] /\ mailed' \in 0..MaxCodes /\ CodesOK'
  <2>1. CASE Restart
    <3>1. /\ UNCHANGED <<mailed, confirmations>>
          /\ \A e \in Emails : otpStore'[e] = None
      BY <2>1 DEF Restart
    <3>2. CodesOK'
      BY <3>1, ForgetOK
    <3> QED
      BY <2>1, <3>1, <3>2 DEF Restart, AccountInv, AccountsTypeOK
  <2>2. ASSUME NEW e \in Emails, TimePasses(e)
        PROVE  otpStore' \in [Emails -> Otp \cup {None}] /\ mailed' \in 0..MaxCodes /\ CodesOK'
    <3>1. otpStore[e] \in Otp /\ Older(otpStore[e].age) \in Ages
      BY <2>2 DEF TimePasses, Older, Ages, Otp, AccountInv, AccountsTypeOK
    <3> DEFINE o == [otpStore[e] EXCEPT !.age = Older(otpStore[e].age)]
    <3>2. o \in Otp /\ o.code = otpStore[e].code /\ o.attempts = otpStore[e].attempts
      BY <3>1 DEF Otp
    <3>3. otpStore' = [otpStore EXCEPT ![e] = o]
      BY <2>2 DEF TimePasses, AccountInv, AccountsTypeOK
    <3> HIDE DEF o
    <3>4. otpStore'[e] = o /\ \A f \in Emails \ {e} : otpStore'[f] = otpStore[f]
      BY <3>3 DEF AccountInv, AccountsTypeOK
    <3>5. UNCHANGED <<mailed, confirmations>> /\ otpStore[e] # None
      BY <2>2 DEF TimePasses
    <3>6. ASSUME NEW f \in Emails, otpStore'[f] # None
          PROVE  /\ otpStore[f] # None /\ otpStore'[f].code = otpStore[f].code
                 /\ otpStore'[f].attempts <= MaxAttempts
      BY <3>2, <3>4, <3>5, <3>6 DEF AccountInv, CodesOK
    <3>7. CodesOK'
      BY <3>5, <3>6, ForgetOK
    <3> QED
      BY <3>2, <3>3, <3>5, <3>7 DEF AccountInv, AccountsTypeOK
  <2>3. ASSUME NEW e \in Emails, SendOtp(e)
        PROVE  otpStore' \in [Emails -> Otp \cup {None}] /\ mailed' \in 0..MaxCodes /\ CodesOK'
    BY <2>3, StoreOtpOK DEF SendOtp
  <2> QED
    BY <2>1, <2>2, <2>3
<1> QED
  BY <1>1, <1>2, <1>3, <1>4 DEF AccountInv, AccountsTypeOK

LEMMA AccountsNextOK == AccountInv /\ [AccountsNext]_accountVars => AccountInv'
<1> SUFFICES ASSUME AccountInv, [AccountsNext]_accountVars PROVE AccountInv'
  OBVIOUS
<1>1. ASSUME NEW c \in Calls, AccountStarts(c) PROVE AccountInv'
  <2>1. ASSUME NEW p \in Profiles, DeleteAccount(c, p) PROVE AccountInv'
    <3> DEFINE call == [at |-> "erase", email |-> None, row |-> p]
    <3>1. call \in AccountCall /\ AccountCallOK(call)
      BY <2>1 DEF AccountCall, EraseCall, AccountCallOK, SignsIn, DeleteAccount
    <3> QED
      BY <2>1, <3>1, QuietStep DEF DeleteAccount, AStarts
  <2>2. ASSUME NEW subject \in Subjects, NEW address \in Addresses, AppleSignIn(c, subject, address)
        PROVE  AccountInv'
    BY <2>2, SignInStarts DEF Providers
  <2>3. ASSUME NEW e \in Emails, NEW provider \in Providers, NEW subject \in Subjects,
               ProviderSignIn(c, provider, subject, e)
        PROVE  AccountInv'
    BY <2>3, SignInStarts DEF Addresses
  <2> QED
    BY <1>1, <2>1, <2>2, <2>3, AccountStartsOK, VerifyOtpOK, ResendOK DEF AccountStarts
<1>2. ASSUME NEW c \in Calls, AccountStep(c) \/ AccountAbort(c) PROVE AccountInv'
  BY <1>2, LooksUpOK, MailsOK, ClearOtpOK, CreateOK, UpdatesOK, CreateLinkedOK DEF AccountStep
<1>3. CASE AccountsNext
  BY <1>1, <1>2, <1>3, CodesMoveOK DEF AccountsNext
<1>4. CASE UNCHANGED accountVars
  BY <1>4 DEF accountVars, AccountInv, AccountsTypeOK, CodesOK, RowOK, AccountCallOK, SignInOK,
              Grounded, AppleLinked
<1> QED
  BY <1>3, <1>4

(* However many verifications of a code run at once, and whatever is       *)
(* mailed, resent, reset or restarted meanwhile, verifyStoredOtp takes a   *)
(* code as right at most once.                                             *)
THEOREM OneCodeOneConfirmation == AccountsSpec => []CodeConfirmsOnce
<1>1. AccountInv => CodeConfirmsOnce
  BY DEF AccountInv, CodesOK, CodeConfirmsOnce
<1> QED
  BY <1>1, AccountsInitOK, AccountsNextOK, PTL DEF AccountsSpec

(* Two resends of one address, each between its check and its store, never *)
(* push the count past MAX_OTP_ATTEMPTS.                                   *)
THEOREM ResendsKeepBudget == AccountsSpec => []ResendBudget
<1>1. AccountInv => ResendBudget
  BY DEF AccountInv, CodesOK, ResendBudget
<1> QED
  BY <1>1, AccountsInitOK, AccountsNextOK, PTL DEF AccountsSpec

(* An account is confirmed only at an address that a code came back from   *)
(* or a token carried, or at one a client named while signing in to the    *)
(* Apple id it is linked to, although the row is found before it is        *)
(* confirmed by its id and the account may be erased in between.           *)
THEOREM ConfirmedOnGround == AccountsSpec => []ConfirmationHasGround
<1>1. AccountInv => ConfirmationHasGround
  BY DEF AccountInv, AccountsTypeOK, RowOK, RowIds, Grounded, ConfirmationHasGround
<1> QED
  BY <1>1, AccountsInitOK, AccountsNextOK, PTL DEF AccountsSpec
=============================================================================
