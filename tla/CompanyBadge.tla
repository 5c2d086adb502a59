---------------------------- MODULE CompanyBadge ----------------------------
(***************************************************************************)
(* The company badge: a user asks for a link to be mailed to a mailbox of  *)
(* his company and opens it.  A mailbox is held by the profile that waits  *)
(* for it (verification_email_hash, a unique index) and, once confirmed,   *)
(* for good by used_verification_emails.                                   *)
(*                                                                         *)
(* The history variable badgesApart says that no user had two handlers at  *)
(* once and that no record of a used mailbox was lost.  Left out:          *)
(* encryption, the company's alumni list, the texts of mails, and links    *)
(* that grow too old, which act like links nobody opens.                   *)
(***************************************************************************)
EXTENDS Handlers, Integers, FiniteSets

CONSTANTS
  Staffers,    \* users
  Mailboxes,   \* addresses at companies that can be verified
  Companies,
  CompanyOf,   \* [Mailboxes -> Companies], the company of the domain
  LinkIds      \* tokens

VARIABLES
  members,       \* user_profiles: [Staffers -> [company, verified, hash]]
  links,         \* company_verification_tokens: [LinkIds -> None or a row]
  usedMail,      \* used_verification_emails: [Mailboxes -> None or a user]
  bcalls,        \* [Calls -> None or the handler in progress]
  badges,        \* history: <<user, mailbox>>, the links that gave a badge
  badgesApart    \* history, see above

badgeVars == <<members, links, usedMail, bcalls, badges, badgesApart>>

(* user_profiles, company_verification_tokens, and what a handler carries. *)
Member == [company : Companies \cup {None}, verified : BOOLEAN, hash : Mailboxes \cup {None}]

Link == [user : Staffers, email : Mailboxes, used : BOOLEAN, mailed : BOOLEAN]

BadgeStages == {"checkUsed", "checkPending", "clear", "insertLink", "setEmail", "mail",
                "useLink", "readHash", "recordUsed", "verify"}

MailboxCall ==
  [at : BadgeStages, user : Staffers, email : Mailboxes, link : LinkIds \cup {None},
   hash : Mailboxes \cup {None}, resend : BOOLEAN, company : {None}]

CompanyCall ==
  [at : {"dropLinks", "writeCompany"}, user : Staffers, email : {None}, link : {None},
   hash : {None}, resend : BOOLEAN, company : Companies]

BadgeCall == MailboxCall \cup CompanyCall

ASSUME BadgesAssumption ==
  /\ CompanyOf \in [Mailboxes -> Companies]
  /\ None \notin Staffers \cup Mailboxes \cup LinkIds \cup Link \cup BadgeCall

BadgesInit ==
  /\ members = [u \in Staffers |-> [company |-> None, verified |-> FALSE, hash |-> None]]
  /\ links = [t \in LinkIds |-> None]
  /\ usedMail = [e \in Mailboxes |-> None]
  /\ bcalls = [c \in Calls |-> None]
  /\ badges = {}
  /\ badgesApart = TRUE

BCall(at, u, e, t) ==
  [at |-> at, user |-> u, email |-> e, link |-> t, hash |-> None, resend |-> FALSE, company |-> None]

BStarts(c, call) ==
  /\ bcalls[c] = None
  /\ bcalls' = [bcalls EXCEPT ![c] = call]
  /\ badgesApart' = (badgesApart /\ \A d \in RowIds(bcalls) : bcalls[d].user # call.user)

BGoes(c, at) == bcalls' = [bcalls EXCEPT ![c].at = at] /\ UNCHANGED badgesApart
BEnds(c)     == bcalls' = [bcalls EXCEPT ![c] = None] /\ UNCHANGED badgesApart

UnusedLink(t) == links[t] = None /\ \A k \in RowIds(bcalls) : bcalls[k].link # t

----------------------------------------------------------------------------
(* requestVerification: not verified, and a mailbox of the user's company. *)
RequestVerification(c, u, e) ==
  /\ ~members[u].verified
  /\ members[u].company = CompanyOf[e]
  /\ BStarts(c, BCall("checkUsed", u, e, None))
  /\ UNCHANGED <<members, links, usedMail, badges>>

(* updateVerificationEmail: the same for a user who waits for a link.  The *)
(* address he waits for already is mailed again without further checks.    *)
UpdateVerificationEmail(c, u, e) ==
  /\ ~members[u].verified
  /\ members[u].company = CompanyOf[e]
  /\ members[u].hash # None
  /\ BStarts(c, BCall(IF e = members[u].hash THEN "clear" ELSE "checkUsed", u, e, None))
  /\ UNCHANGED <<members, links, usedMail, badges>>

(* checkEmailAvailability, two statements.                                 *)
CheckUsed(c) ==
  /\ Waits(bcalls[c], "checkUsed")
  /\ IF usedMail[bcalls[c].email] # None THEN BEnds(c) ELSE BGoes(c, "checkPending")
  /\ UNCHANGED <<members, links, usedMail, badges>>

CheckPending(c) ==
  /\ Waits(bcalls[c], "checkPending")
  /\ IF \E v \in Staffers \ {bcalls[c].user} : members[v].hash = bcalls[c].email
     THEN BEnds(c) ELSE BGoes(c, "clear")
  /\ UNCHANGED <<members, links, usedMail, badges>>

WithoutUnused(u) ==
  [t \in LinkIds |-> IF links[t] # None /\ links[t].user = u /\ ~links[t].used
                     THEN None ELSE links[t]]

(* The links not opened are deleted; a resent address is in the profile.   *)
ClearLinks(c) ==
  /\ Waits(bcalls[c], "clear")
  /\ links' = WithoutUnused(bcalls[c].user)
  /\ bcalls' = [bcalls EXCEPT ![c].at = "insertLink",
                              ![c].resend = members[bcalls[c].user].hash = bcalls[c].email]
  /\ UNCHANGED <<members, usedMail, badges, badgesApart>>

InsertLinkMailed(c) ==
  /\ Waits(bcalls[c], "insertLink")
  /\ \E t \in LinkIds :
       /\ UnusedLink(t)
       /\ links' = [links EXCEPT ![t] = [user |-> bcalls[c].user, email |-> bcalls[c].email,
                                         used |-> FALSE, mailed |-> TRUE]]
       /\ bcalls' = [bcalls EXCEPT ![c].link = t,
                                   ![c].at = IF bcalls[c].resend THEN "mail" ELSE "setEmail"]
  /\ UNCHANGED <<members, usedMail, badges, badgesApart>>

InsertLink(c) ==
  /\ Waits(bcalls[c], "insertLink")
  /\ \E t \in LinkIds :
       /\ UnusedLink(t)
       /\ links' = [links EXCEPT ![t] = [user |-> bcalls[c].user, email |-> bcalls[c].email,
                                         used |-> FALSE, mailed |-> FALSE]]
       /\ bcalls' = [bcalls EXCEPT ![c].link = t,
                                   ![c].at = IF bcalls[c].resend THEN "mail" ELSE "setEmail"]
  /\ UNCHANGED <<members, usedMail, badges, badgesApart>>

(* The unique index refuses a mailbox another profile waits for; the link  *)
(* stays in the table but is not mailed.                                   *)
SetEmail(c) ==
  /\ Waits(bcalls[c], "setEmail")
  /\ LET k == bcalls[c]
         refused == \E v \in Staffers \ {k.user} : members[v].hash = k.email
     IN IF refused
        THEN BEnds(c) /\ UNCHANGED members
        ELSE members' = [members EXCEPT ![k.user].hash = k.email] /\ BGoes(c, "mail")
  /\ UNCHANGED <<links, usedMail, badges>>

SendCompanyVerificationEmail(c) ==
  /\ Waits(bcalls[c], "mail")
  /\ links' = [t \in LinkIds |-> IF t = bcalls[c].link /\ links[t] # None
                                 THEN [links[t] EXCEPT !.mailed = TRUE] ELSE links[t]]
  /\ BEnds(c)
  /\ UNCHANGED <<members, usedMail, badges>>

----------------------------------------------------------------------------
(* confirmVerification: a link not used and not too old.                   *)
ConfirmVerification(c, t) ==
  /\ links[t] # None
  /\ links[t].mailed
  /\ ~links[t].used
  /\ BStarts(c, BCall("useLink", links[t].user, links[t].email, t))
  /\ UNCHANGED <<members, links, usedMail, badges>>

(* Marked by the token alone.                                              *)
UseLink(c) ==
  /\ Waits(bcalls[c], "useLink")
  /\ links' = [t \in LinkIds |-> IF t = bcalls[c].link /\ links[t] # None
                                 THEN [links[t] EXCEPT !.used = TRUE] ELSE links[t]]
  /\ BGoes(c, "readHash")
  /\ UNCHANGED <<members, usedMail, badges>>

(* The mailbox recorded is the one the profile names by now.               *)
ReadHash(c) ==
  /\ Waits(bcalls[c], "readHash")
  /\ bcalls' = [bcalls EXCEPT ![c].at = "recordUsed", ![c].hash = members[bcalls[c].user].hash]
  /\ UNCHANGED <<members, links, usedMail, badges, badgesApart>>

(* An error of the insert is logged, and the user is verified all the same.*)
RecordUsed(c) ==
  /\ Waits(bcalls[c], "recordUsed")
  /\ LET k == bcalls[c]
     IN \/ /\ usedMail' = IF k.hash # None /\ usedMail[k.hash] = None
                          THEN [usedMail EXCEPT ![k.hash] = k.user] ELSE usedMail
           /\ UNCHANGED badgesApart
        \/ /\ UNCHANGED usedMail
           /\ badgesApart' = FALSE
  /\ bcalls' = [bcalls EXCEPT ![c].at = "verify"]
  /\ UNCHANGED <<members, links, badges>>

VerifyProfile(c) ==
  /\ Waits(bcalls[c], "verify")
  /\ members' = [members EXCEPT ![bcalls[c].user].verified = TRUE]
  /\ badges' = badges \cup {<<bcalls[c].user, bcalls[c].email>>}
  /\ BEnds(c)
  /\ UNCHANGED <<links, usedMail>>

----------------------------------------------------------------------------
(* The company section of the unified profile: another company deletes the *)
(* links that wait, then takes the badge away.                             *)
ChangeCompany(c, u, company) ==
  /\ members[u].company \notin {None, company}
  /\ BStarts(c, [BCall("dropLinks", u, None, None) EXCEPT !.company = company])
  /\ UNCHANGED <<members, links, usedMail, badges>>

DropLinks(c) ==
  /\ Waits(bcalls[c], "dropLinks")
  /\ links' = WithoutUnused(bcalls[c].user)
  /\ BGoes(c, "writeCompany")
  /\ UNCHANGED <<members, usedMail, badges>>

WriteCompany(c) ==
  /\ Waits(bcalls[c], "writeCompany")
  /\ LET k == bcalls[c]
     IN members' = [members EXCEPT ![k.user].company = k.company, ![k.user].verified = FALSE]
  /\ BEnds(c)
  /\ UNCHANGED <<links, usedMail, badges>>

(* saveOnboardingData and the older updateProfile write the company and    *)
(* leave the badge and the links as they are.                              *)
SaveCompany(u, company) ==
  /\ members' = [members EXCEPT ![u].company = company]
  /\ badgesApart' = (badgesApart /\ \A d \in RowIds(bcalls) : bcalls[d].user # u)
  /\ UNCHANGED <<links, usedMail, bcalls, badges>>

BadgeAbort(c) ==
  /\ bcalls[c] # None
  /\ BEnds(c)
  /\ UNCHANGED <<members, links, usedMail, badges>>

BadgeStarts(c) ==
  \/ \E u \in Staffers :
       \/ \E e \in Mailboxes : RequestVerification(c, u, e) \/ UpdateVerificationEmail(c, u, e)
       \/ \E company \in Companies : ChangeCompany(c, u, company)
  \/ \E t \in LinkIds : ConfirmVerification(c, t)

BadgeStep(c) ==
  \/ CheckUsed(c) \/ CheckPending(c) \/ ClearLinks(c) \/ InsertLink(c) \/ SetEmail(c)
  \/ SendCompanyVerificationEmail(c)
  \/ UseLink(c) \/ ReadHash(c) \/ RecordUsed(c) \/ VerifyProfile(c)
  \/ DropLinks(c) \/ WriteCompany(c)

BadgesNext ==
  \/ \E c \in Calls : BadgeStarts(c) \/ BadgeStep(c) \/ BadgeAbort(c)
  \/ \E u \in Staffers, company \in Companies : SaveCompany(u, company)

BadgesSpec == BadgesInit /\ [][BadgesNext]_badgeVars

----------------------------------------------------------------------------
(* However the handlers of different users overlap and wherever they stop, *)
(* a badge rests on the mailbox its profile names, whose link the user has *)
(* opened; that mailbox is on record as used, and no other badge rests on  *)
(* it.  The two queries of checkEmailAvailability do not see to this: the  *)
(* unique index does, and the order of profile, mail and record.           *)
OneBadgePerMailbox ==
  badgesApart =>
    \A u \in Staffers : members[u].verified =>
      /\ <<u, members[u].hash>> \in badges
      /\ usedMail[members[u].hash] # None
      /\ \A v \in Staffers \ {u} : members[v].hash # members[u].hash
=============================================================================
