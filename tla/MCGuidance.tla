----------------------------- MODULE MCGuidance -----------------------------
(* The components that guide one user, each run on its own: mentorship,    *)
(* coaching and its rulebook, insights, accounts, the company badge and    *)
(* the decision on one reply of the moderation model.  The component that  *)
(* runs is chosen at the start; the others stay in their initial state.    *)
EXTENDS Mentorship, Coaching, Rulebook, InsightsCache, Accounts, CompanyBadge,
        EditorialDecision, TLC

CONSTANTS ann, ben, q1, k1, k2, u1, u2, e1, e2, m1, m2, m3

VARIABLE focus

Guides == {"mentorship", "coaching", "rulebook", "insights", "accounts", "badge", "decision"}

decisionVars == <<phase, mode, reply, verdict, result>>

MCConfidences == {-20, 0, 74, 75, 84, 85, 89, 90, 100, 130}

MCCategorySets == {{}, {"crisis_signal", "threat"}, {"self_harm"}, {"spam"}, {"harassment"}}

MCReplies ==
  [verdict : VerdictTags \cup {Garbled}, severity : Severities \cup {Garbled},
   confidence : MCConfidences, hasConfidence : {TRUE},
   categories : MCCategorySets, hasCategories : {TRUE}]
  \cup
  [verdict : VerdictTags \cup {Garbled}, severity : Severities \cup {Garbled},
   confidence : {0}, hasConfidence : {FALSE},
   categories : {{"spam"}}, hasCategories : BOOLEAN]

AllAcme == [e \in Mailboxes |-> "acme"]

(* A decision that is not in focus has no reply to choose.                 *)
IdleDecision == mode = "full" /\ reply = CHOOSE r \in Replies : r.confidence = 100

GuidanceInit ==
  /\ focus \in Guides
  /\ MentorshipInit /\ CoachingInit /\ RulebookInit /\ InsightsInit /\ AccountsInit /\ BadgesInit
  /\ Init
  /\ focus # "decision" => IdleDecision

(* The components other than one stay as they are.                         *)
Rest(guide) ==
  /\ UNCHANGED focus
  /\ IF guide = "mentorship" THEN TRUE ELSE UNCHANGED mentorshipVars
  /\ IF guide = "coaching" THEN TRUE ELSE UNCHANGED coachingVars
  /\ IF guide = "rulebook" THEN TRUE ELSE UNCHANGED rulebookVars
  /\ IF guide = "insights" THEN TRUE ELSE UNCHANGED insightVars
  /\ IF guide = "accounts" THEN TRUE ELSE UNCHANGED accountVars
  /\ IF guide = "badge" THEN TRUE ELSE UNCHANGED badgeVars
  /\ IF guide = "decision" THEN TRUE ELSE UNCHANGED decisionVars

GuidanceNext ==
  \/ focus = "mentorship" /\ MentorshipNext /\ Rest("mentorship")
  \/ focus = "coaching" /\ CoachingNext /\ Rest("coaching")
  \/ focus = "rulebook" /\ RulebookNext /\ Rest("rulebook")
  \/ focus = "insights" /\ InsightsNext /\ Rest("insights")
  \/ focus = "accounts" /\ AccountsNext /\ Rest("accounts")
  \/ focus = "badge" /\ BadgesNext /\ Rest("badge")
  \/ focus = "decision" /\ Next /\ Rest("decision")

allVars == <<focus, mentorshipVars, coachingVars, rulebookVars, insightVars, accountVars,
             badgeVars, decisionVars>>

GuidanceSpec == GuidanceInit /\ [][GuidanceNext]_allVars

Symmetry == Permutations({k1, k2}) \cup Permutations({u1, u2}) \cup Permutations({e1, e2})

----------------------------------------------------------------------------
(* What the run leaves out of the states it could visit.                   *)

(* A look at a request overlaps nothing.  Once there is a meeting no call  *)
(* about a request overlaps another, and the request is still there; once  *)
(* there are two meetings nothing but bookings happens.  Before there is a *)
(* meeting a general update overlaps another call; once it is written      *)
(* calls come one at a time, and about requests alone.                     *)
FewMeetings ==
  LET twice == Cardinality(RowIds(mcalls)) = 2
      on(c) == "on" \in DOMAIN mcalls[c] /\ mcalls[c].on \notin Requests
      general(c) == mcalls[c].at \in {"rewrite", "setTotal", "setCompleted"}
      updated == edited # {} \/ \E k \in RowIds(relations) : relations[k].completed > MaxCompleted
  IN /\ updated => /\ RowIds(meetings) = {}
                   /\ ~ twice
                   /\ \A c \in RowIds(mcalls) : ~ on(c)
     /\ RowIds(meetings) # {} => \A c \in RowIds(mcalls) : ~ general(c)
     /\ CASE RowIds(meetings) = {} ->
               twice => \A c \in RowIds(mcalls) : mcalls[c].at \notin {"getRequest", "markRead"}
          [] Cardinality(RowIds(meetings)) = 1 ->
               /\ twice => \A c \in RowIds(mcalls) : on(c)
               /\ requests[q1] # None => requests[q1].status # "withdrawn"
          [] OTHER ->
               /\ \A c \in RowIds(mcalls) : mcalls[c].at \in {"book", "count", "plan"}
               /\ \A s \in RowIds(meetings) : meetings[s].status = "scheduled"
               /\ \A k \in RowIds(relations) :
                     relations[k].status = "active" /\ relations[k].completed = 0

(* After a turn that failed, one at a time; a flag is logged by one alone. *)
FewTurns ==
  Cardinality(RowIds(ccalls)) = 2 =>
    dropped = {} /\ \A c \in RowIds(ccalls) : ccalls[c].at # "logFlag"

(* The job and one call, or two calls, until as many posts are there as    *)
(* are read; beyond them one at a time.  A call that could not read the    *)
(* row, or insights made without the posts, with fewer posts still.        *)
FewInsights ==
  LET poor(i) == i # None /\ (i.hash = NoHash \/ ~ i.whole)
      odd == \/ poor(entry)
             \/ \E c \in RowIds(icalls) : icalls[c].hash = NoHash \/ poor(icalls[c].seen)
      twice == Cardinality(RowIds(icalls)) = 2
  IN /\ twice => job = None /\ text < ReadLimit
     /\ job # None /\ RowIds(icalls) # {} => text <= ReadLimit
     /\ odd => ~ twice /\ text <= ReadLimit /\ (job = None \/ text < ReadLimit)

(* A sign-in through Apple overlaps a call about the only code or, before  *)
(* there is one, any call; a sign-in through Google is alone.              *)
FewSignIns ==
  LET signing == {c \in RowIds(acalls) : "provider" \in DOMAIN acalls[c]}
      google == \/ \E c \in signing : acalls[c].provider = "google"
                \/ \E p \in RowIds(profiles) : profiles[p].subs["google"] # None
      names == Cardinality(proven \cup claimed)
  IN /\ signing # {} /\ google => Cardinality(RowIds(acalls)) = 1
     /\ signing # {} /\ mailed > 0 => mailed = 1 /\ names <= 1 /\ Cardinality(signing) = 1
     /\ google => mailed = 0 /\ claimed = {}
     /\ claimed # {} => mailed <= 1 /\ names <= 1

(* Two sign-ups, or one account and its codes.                             *)
FewCodes ==
  \/ mailed <= 1 /\ Cardinality(RowIds(profiles)) <= 1
  \/ /\ RowIds(profiles) = {}
     /\ Cardinality({e \in Emails : \/ otpStore[e] # None
                                    \/ e \in proven \cup claimed
                                    \/ \E c \in RowIds(acalls) : acalls[c].email = e}) <= 1
  \/ /\ mailed <= 2
     /\ Cardinality(proven \cup claimed) + Cardinality(RowIds(profiles)) <= 2
     /\ \A c \in RowIds(acalls) :
          acalls[c].at \in {"checkEmail", "hash", "create", "createAgain", "findProfile", "confirm"}
     /\ \A e \in Emails : otpStore[e] # None => otpStore[e].age = "new"

(* What OneBadgePerMailbox excuses is not followed any further.            *)
FewLinks ==
  LET busy == Cardinality(RowIds(bcalls))
  IN /\ badgesApart
     /\ 2 * Cardinality(RowIds(links)) + busy <= 5
     /\ busy = 2 => \A u \in Staffers : members[u].company # "beta"

Few == FewMeetings /\ FewTurns /\ FewInsights /\ FewSignIns /\ FewCodes /\ FewLinks
=============================================================================
