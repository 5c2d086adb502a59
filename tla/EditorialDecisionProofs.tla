----------------------- MODULE EditorialDecisionProofs -----------------------
(***************************************************************************)
(* The editorial decision for every reply, every confidence and every pair *)
(* of thresholds: a garbled reply becomes a verdict, the enforcement       *)
(* matrix acts on it as promised in each rollout mode.                     *)
(*                                                                         *)
(* The state machine only carries the functions, so the invariant says     *)
(* that verdict and result are what they compute; the lemmas below say     *)
(* what Decide is, case by case.                                           *)
(***************************************************************************)
EXTENDS EditorialDecision, TLAPS

LEMMA ParsedIsVerdict ==
  ASSUME NEW r \in Reply
  PROVE  ParseVerdict(r) \in Verdict
<1>1. Clamp(r.confidence) \in 0..100
  BY DEF Reply, Clamp
<1>2. /\ r.verdict = Garbled \/ r.verdict \in VerdictTags
      /\ r.severity = Garbled \/ r.severity \in Severities
      /\ r.categories \in SUBSET Categories
  BY DEF Reply
<1>3. "escalate" \in VerdictTags /\ "medium" \in Severities /\ 50 \in 0..100
  BY DEF VerdictTags, Severities
<1> QED
  BY <1>1, <1>2, <1>3 DEF ParseVerdict, Verdict

(* The matrix, row by row.                                                 *)
LEMMA DecideIs ==
  ASSUME NEW m \in Modes, NEW v \in Verdict
  PROVE  /\ CrisisSignal(v) => Decide(m, v) = CrisisOverride
         /\ ~CrisisSignal(v) /\ m = "shadow" =>
              Decide(m, v) = Result("allow", "pending_review", TRUE, "normal", "shadow_mode")
         /\ ~CrisisSignal(v) /\ m # "shadow" =>
              /\ v.verdict = "allow" => Decide(m, v) = HandleAllow(v)
              /\ v.verdict = "hide" => Decide(m, v) = HandleHide(m, v)
              /\ v.verdict = "remove" => Decide(m, v) = HandleRemove(m, v)
              /\ v.verdict = "escalate" => Decide(m, v) = HandleEscalate
<1> DEFINE C == CrisisSignal(v)
<1>1. CASE C
  BY <1>1 DEF Decide
<1>2. CASE ~C
  <2> HIDE DEF C
  <2>1. CASE m = "shadow"
    BY <1>2, <2>1 DEF Decide, C
  <2>2. CASE m # "shadow"
    BY <1>2, <2>2 DEF Decide, C
  <2> QED
    BY <1>2, <2>1, <2>2 DEF C
<1> QED
  BY <1>1, <1>2

LEMMA AllowIs ==
  ASSUME NEW v \in Verdict
  PROVE  /\ HandleAllow(v) \in EnforcementResult
         /\ HandleAllow(v).action = "allow"
         /\ ~HandleAllow(v).needsReview =>
              v.confidence >= AutoHide /\ v.severity \in {"none", "low"}
<1>1. v.confidence \in 0..100 /\ AutoHide \in 0..100
  BY ThresholdAssumption DEF Verdict
<1>2. CASE v.confidence < AutoHide
  BY <1>1, <1>2
     DEF HandleAllow, Result, EnforcementResult, Actions, AiStatuses, Priorities, Reasons
<1>3. CASE v.confidence >= AutoHide /\ v.severity \in {"none", "low"}
  BY <1>1, <1>3
     DEF HandleAllow, Result, EnforcementResult, Actions, AiStatuses, Priorities, Reasons
<1>4. CASE v.confidence >= AutoHide /\ v.severity \notin {"none", "low"}
  BY <1>1, <1>4
     DEF HandleAllow, Result, EnforcementResult, Actions, AiStatuses, Priorities, Reasons
<1> QED
  BY <1>1, <1>2, <1>3, <1>4

LEMMA HideIs ==
  ASSUME NEW m \in Modes, NEW v \in Verdict
  PROVE  /\ HandleHide(m, v) \in EnforcementResult
         /\ HandleHide(m, v).action =
              IF m = "allow_only" \/ v.confidence < AutoHide THEN "allow" ELSE "hide"
         /\ HandleHide(m, v).needsReview
<1>1. v.confidence \in 0..100 /\ AutoHide \in 0..100
  BY ThresholdAssumption DEF Verdict
<1>2. CASE m = "allow_only"
  BY <1>1, <1>2
     DEF HandleHide, Result, EnforcementResult, Actions, AiStatuses, Priorities, Reasons
<1>3. CASE m # "allow_only" /\ v.confidence < AutoHide
  BY <1>1, <1>3
     DEF HandleHide, Result, EnforcementResult, Actions, AiStatuses, Priorities, Reasons
<1>4. CASE m # "allow_only" /\ ~(v.confidence < AutoHide)
  BY <1>1, <1>4
     DEF HandleHide, Result, EnforcementResult, Actions, AiStatuses, Priorities, Reasons
<1> QED
  BY <1>1, <1>2, <1>3, <1>4

(* What a remove verdict becomes once removals are enforced.               *)
LEMMA RemoveIs ==
  ASSUME NEW v \in Verdict
  PROVE  /\ RemoveBySeverity(v) \in EnforcementResult
         /\ RemoveBySeverity(v).action =
              IF v.severity \in {"low", "medium"}
              THEN IF v.confidence >= AutoHide THEN "hide" ELSE "allow"
              ELSE IF /\ HasInstantCategory(v)
                      /\ \/ v.severity = "high" /\ v.confidence >= AutoRemove
                         \/ v.severity = "critical" /\ v.confidence >= 85
                   THEN "remove" ELSE "hide"
         /\ ~RemoveBySeverity(v).needsReview =>
              v.severity = "high" /\ v.confidence >= AutoRemove /\ HasInstantCategory(v)
<1>1. v.confidence \in 0..100 /\ AutoHide \in 0..100 /\ AutoRemove \in 0..100
  BY ThresholdAssumption DEF Verdict
<1>2. CASE v.severity \in {"low", "medium"}
  BY <1>1, <1>2
     DEF RemoveBySeverity, Result, EnforcementResult, Actions, AiStatuses, Priorities, Reasons
<1>3. CASE v.severity = "high"
  BY <1>1, <1>3
     DEF RemoveBySeverity, Result, EnforcementResult, Actions, AiStatuses, Priorities, Reasons
<1>4. CASE v.severity = "critical"
  BY <1>1, <1>4
     DEF RemoveBySeverity, Result, EnforcementResult, Actions, AiStatuses, Priorities, Reasons
<1>5. CASE v.severity \notin {"low", "medium", "high", "critical"}
  BY <1>1, <1>5
     DEF RemoveBySeverity, Result, EnforcementResult, Actions, AiStatuses, Priorities, Reasons
<1> QED
  BY <1>1, <1>2, <1>3, <1>4, <1>5

LEMMA RemoveInModeIs ==
  ASSUME NEW m \in {"allow_only", "hide_enabled"}, NEW v \in Verdict
  PROVE  /\ RemoveInMode(m, v) \in EnforcementResult
         /\ RemoveInMode(m, v).action =
              IF m = "hide_enabled" /\ v.confidence >= AutoHide THEN "hide" ELSE "allow"
         /\ RemoveInMode(m, v).needsReview
BY DEF RemoveInMode, Result, EnforcementResult, Actions, AiStatuses, Priorities, Reasons

LEMMA FixedResults ==
  /\ CrisisOverride \in EnforcementResult
  /\ CrisisOverride.action = "allow"
  /\ CrisisOverride.needsReview
  /\ CrisisOverride.reviewPriority = "urgent"
  /\ CrisisOverride.sendSafetyDm
  /\ HandleEscalate \in EnforcementResult
  /\ HandleEscalate.action = "allow"
  /\ HandleEscalate.needsReview
  /\ LET r == Result("allow", "pending_review", TRUE, "normal", "shadow_mode")
     IN r \in EnforcementResult /\ r.action = "allow" /\ r.needsReview
BY DEF CrisisOverride, HandleEscalate, Result, EnforcementResult, Actions, AiStatuses,
       Priorities, Reasons

----------------------------------------------------------------------------
(* The action taken, in one expression.                                    *)
ActionOf(m, v) ==
  IF CrisisSignal(v) \/ m = "shadow" \/ v.verdict \in {"allow", "escalate"} THEN "allow"
  ELSE IF v.verdict = "hide"
  THEN IF m = "allow_only" \/ v.confidence < AutoHide THEN "allow" ELSE "hide"
  ELSE IF m # "full"
  THEN IF m = "hide_enabled" /\ v.confidence >= AutoHide THEN "hide" ELSE "allow"
  ELSE IF v.severity \in {"low", "medium"}
  THEN IF v.confidence >= AutoHide THEN "hide" ELSE "allow"
  ELSE IF /\ HasInstantCategory(v)
          /\ \/ v.severity = "high" /\ v.confidence >= AutoRemove
             \/ v.severity = "critical" /\ v.confidence >= 85
  THEN "remove" ELSE "hide"

LEMMA Decision ==
  ASSUME NEW m \in Modes, NEW v \in Verdict
  PROVE  /\ Decide(m, v) \in EnforcementResult
         /\ Decide(m, v).action = ActionOf(m, v)
         /\ ~Decide(m, v).needsReview =>
              \/ /\ v.verdict = "allow"
                 /\ v.confidence >= AutoHide
                 /\ v.severity \in {"none", "low"}
              \/ /\ v.verdict = "remove"
                 /\ v.severity = "high"
                 /\ v.confidence >= AutoRemove
                 /\ HasInstantCategory(v)
                 /\ m = "full"
<1>1. CASE CrisisSignal(v)
  BY <1>1, DecideIs, FixedResults DEF ActionOf
<1>2. CASE ~CrisisSignal(v) /\ m = "shadow"
  BY <1>2, DecideIs, FixedResults DEF ActionOf
<1>3. CASE ~CrisisSignal(v) /\ m # "shadow" /\ v.verdict = "allow"
  BY <1>3, DecideIs, AllowIs DEF ActionOf
<1>4. CASE ~CrisisSignal(v) /\ m # "shadow" /\ v.verdict = "escalate"
  BY <1>4, DecideIs, FixedResults DEF ActionOf
<1>5. CASE ~CrisisSignal(v) /\ m # "shadow" /\ v.verdict = "hide"
  BY <1>5, DecideIs, HideIs DEF ActionOf
<1>6. CASE ~CrisisSignal(v) /\ m # "shadow" /\ v.verdict = "remove"
  <2>1. Decide(m, v) = HandleRemove(m, v)
    BY <1>6, DecideIs
  <2>2. CASE m = "full"
    <3>1. HandleRemove(m, v) = RemoveBySeverity(v)
      BY <2>2 DEF HandleRemove
    <3> QED
      BY <1>6, <2>1, <2>2, <3>1, RemoveIs DEF ActionOf
  <2>3. CASE m \in {"allow_only", "hide_enabled"}
    <3>1. HandleRemove(m, v) = RemoveInMode(m, v)
      BY <2>3 DEF HandleRemove
    <3> QED
      BY <1>6, <2>1, <2>3, <3>1, RemoveInModeIs DEF ActionOf
  <2> QED
    BY <1>6, <2>2, <2>3 DEF Modes
<1>7. v.verdict \in {"allow", "hide", "remove", "escalate"}
  BY DEF Verdict, VerdictTags
<1> QED
  BY <1>1, <1>2, <1>3, <1>4, <1>5, <1>6, <1>7

LEMMA Ranks == Rank("allow") = 0 /\ Rank("hide") = 1 /\ Rank("remove") = 2
BY DEF Rank

(* Each step of the rollout does as much as the one before, or more.       *)
LEMMA RolloutOf ==
  ASSUME NEW v \in Verdict
  PROVE  /\ Rank(Decide("shadow", v).action) <= Rank(Decide("allow_only", v).action)
         /\ Rank(Decide("allow_only", v).action) <= Rank(Decide("hide_enabled", v).action)
         /\ Rank(Decide("hide_enabled", v).action) <= Rank(Decide("full", v).action)
<1>1. v.confidence \in 0..100 /\ AutoHide \in 0..100 /\ v.verdict \in VerdictTags
  BY ThresholdAssumption DEF Verdict
<1>2. \A m \in Modes : Decide(m, v).action = ActionOf(m, v)
  BY Decision
<1>3. {"shadow", "allow_only", "hide_enabled", "full"} = Modes
  BY DEF Modes
<1>4. \A m \in Modes : ActionOf(m, v) \in {"allow", "hide", "remove"}
  BY DEF ActionOf
<1>5. ActionOf("shadow", v) = "allow"
  BY DEF ActionOf
<1>6. ActionOf("allow_only", v) = "allow"
  BY <1>1 DEF ActionOf, VerdictTags
<1>7. \/ ActionOf("hide_enabled", v) = "allow"
      \/ ActionOf("hide_enabled", v) = "hide" /\ ActionOf("full", v) \in {"hide", "remove"}
  BY <1>1 DEF ActionOf, VerdictTags
<1> QED
  BY <1>2, <1>3, <1>4, <1>5, <1>6, <1>7, Ranks

Surer(v, n) == [v EXCEPT !.confidence = n]

(* A surer verdict of the same kind gets the same action or a stronger one.*)
LEMMA SurerOf ==
  ASSUME NEW m \in Modes, NEW v \in Verdict, NEW n \in 0..100, n >= v.confidence
  PROVE  Rank(Decide(m, v).action) <= Rank(Decide(m, Surer(v, n)).action)
<1> DEFINE w == Surer(v, n)
<1>1. /\ w \in Verdict /\ w.verdict = v.verdict /\ w.severity = v.severity
      /\ w.categories = v.categories /\ w.confidence = n
  BY DEF Verdict, Surer
<1>2. CrisisSignal(w) = CrisisSignal(v) /\ HasInstantCategory(w) = HasInstantCategory(v)
  BY <1>1 DEF CrisisSignal, HasInstantCategory
<1>3. v.confidence \in 0..100 /\ AutoHide \in 0..100 /\ AutoRemove \in 0..100
  BY ThresholdAssumption DEF Verdict
<1> HIDE DEF w
<1>4. /\ Decide(m, v).action = ActionOf(m, v)
      /\ Decide(m, w).action = ActionOf(m, w)
  BY <1>1, Decision
<1>5. \/ ActionOf(m, v) = "allow" /\ ActionOf(m, w) \in {"allow", "hide", "remove"}
      \/ ActionOf(m, v) = "hide" /\ ActionOf(m, w) \in {"hide", "remove"}
      \/ ActionOf(m, v) = "remove" /\ ActionOf(m, w) = "remove"
  BY <1>1, <1>2, <1>3 DEF ActionOf
<1>6. Rank(Decide(m, v).action) <= Rank(Decide(m, w).action)
  BY <1>4, <1>5, Ranks
<1> QED
  BY <1>6 DEF w

----------------------------------------------------------------------------

IndInv ==
  /\ TypeOK
  /\ phase = "parsed" => verdict = ParseVerdict(reply)
  /\ phase = "decided" => verdict = ParseVerdict(reply) /\ result = Decide(mode, verdict)

LEMMA InitOK == Init => IndInv
<1> SUFFICES ASSUME Init PROVE IndInv
  OBVIOUS
<1>1. NoVerdict \in Verdict
  BY DEF NoVerdict, Verdict, VerdictTags, Severities
<1>2. NoResult \in EnforcementResult
  BY DEF NoResult, Result, EnforcementResult, Actions, AiStatuses, Priorities, Reasons
<1> QED
  BY <1>1, <1>2, RepliesAssumption DEF Init, IndInv, TypeOK

LEMMA StepOK == IndInv /\ [Next]_vars => IndInv'
<1> SUFFICES ASSUME IndInv, [Next]_vars PROVE IndInv'
  OBVIOUS
<1>1. CASE UNCHANGED vars
  BY <1>1 DEF vars, IndInv, TypeOK
<1>2. CASE Parse
  <2>1. ParseVerdict(reply) \in Verdict
    BY ParsedIsVerdict DEF IndInv, TypeOK
  <2> QED
    BY <1>2, <2>1 DEF Parse, IndInv, TypeOK
<1>3. CASE Enforce
  <2>1. Decide(mode, verdict) \in EnforcementResult
    BY Decision DEF IndInv, TypeOK
  <2> QED
    BY <1>3, <2>1 DEF Enforce, IndInv, TypeOK
<1> QED
  BY <1>1, <1>2, <1>3 DEF Next

(* The invariant of the decision: verdict and result are what parseVerdict *)
(* and decide return, of the declared shapes.                              *)
THEOREM DecisionInvariant == Spec => []IndInv
BY InitOK, StepOK, PTL DEF Spec

(* Every reply becomes a verdict and a result of the declared shapes,      *)
(* whatever parseVerdict was given.                                        *)
THEOREM DecisionTypeCorrect == Spec => []TypeOK
<1>1. IndInv => TypeOK
  BY DEF IndInv
<1> QED
  BY <1>1, DecisionInvariant, PTL

(* No step of the rollout undoes what the one before enforced: decide, for *)
(* every verdict and every pair of thresholds.                             *)
THEOREM RolloutIsMonotonic == Spec => []RolloutNeverWeakens
<1>1. IndInv => RolloutNeverWeakens
  BY RolloutOf DEF IndInv, TypeOK, RolloutNeverWeakens
<1> QED
  BY <1>1, DecisionInvariant, PTL

(* A surer model never gets a weaker action out of the matrix of decide.   *)
THEOREM ConfidenceIsMonotonic == Spec => []MoreConfidenceNeverWeakens
<1>1. IndInv => MoreConfidenceNeverWeakens
  <2> SUFFICES ASSUME IndInv, phase = "decided", NEW n \in {AutoHide, 85, AutoRemove, 100},
                      n >= verdict.confidence
               PROVE  Rank(result.action) <=
                        Rank(Decide(mode, [verdict EXCEPT !.confidence = n]).action)
    BY DEF MoreConfidenceNeverWeakens
  <2>1. PICK m \in Modes, v \in Verdict : m = mode /\ v = verdict
    BY DEF IndInv, TypeOK
  <2>2. PICK k \in 0..100 : k = n
    BY ThresholdAssumption
  <2>3. k >= v.confidence
    BY <2>1, <2>2
  <2>4. Rank(Decide(m, v).action) <= Rank(Decide(m, Surer(v, k)).action)
    BY <2>3, SurerOf
  <2>5. Surer(v, k) = [verdict EXCEPT !.confidence = n]
    BY <2>1, <2>2 DEF Surer
  <2>6. result = Decide(m, v) /\ m = mode
    BY <2>1 DEF IndInv
  <2> QED
    BY <2>4, <2>5, <2>6
<1> QED
  BY <1>1, DecisionInvariant, PTL

(* Only a confident allow of low severity, or a listed category removed at *)
(* the removal threshold, goes without a human.                            *)
THEOREM ReviewUnlessClear == Spec => []UnreviewedOnlyWhenClear
<1>1. IndInv => UnreviewedOnlyWhenClear
  <2> SUFFICES ASSUME IndInv, phase = "decided", ~result.needsReview
               PROVE  UnreviewedOnlyWhenClear
    BY DEF UnreviewedOnlyWhenClear
  <2>1. mode \in Modes /\ verdict \in Verdict /\ result = Decide(mode, verdict)
    BY DEF IndInv, TypeOK
  <2>2. verdict.verdict = "allow" => result.action = "allow"
    BY <2>1, Decision DEF ActionOf
  <2> QED
    BY <2>1, <2>2, Decision DEF UnreviewedOnlyWhenClear
<1> QED
  BY <1>1, DecisionInvariant, PTL

(* A cry for help is never acted on and always reaches a human: the crisis *)
(* override comes before every other test of decide.                       *)
THEOREM CrisisIsHeard == Spec => []CrisisReachesHuman
<1>1. IndInv => CrisisReachesHuman
  <2> SUFFICES ASSUME IndInv, phase = "decided", CrisisSignal(verdict)
               PROVE  CrisisReachesHuman
    BY DEF CrisisReachesHuman
  <2>1. result = CrisisOverride
    BY DecideIs DEF IndInv, TypeOK
  <2> QED
    BY <2>1, FixedResults DEF CrisisReachesHuman
<1> QED
  BY <1>1, DecisionInvariant, PTL

(* A reply too broken to judge leaves the content visible and goes to a    *)
(* human, as long as the threshold for hiding is above 50 percent, the     *)
(* confidence that parseVerdict puts in the place of a missing one.        *)
THEOREM GarbledNeverEnforced ==
  ASSUME AutoHide > 50
  PROVE  Spec => []GarbledReplyFailsOpen
<1>1. IndInv => GarbledReplyFailsOpen
  <2> SUFFICES ASSUME IndInv, phase = "decided",
                      \/ reply.verdict = Garbled
                      \/ ~reply.hasConfidence /\ reply.severity = Garbled
               PROVE  result.action = "allow" /\ result.needsReview
    BY DEF GarbledReplyFailsOpen
  <2>1. mode \in Modes /\ verdict \in Verdict /\ result = Decide(mode, verdict)
    BY DEF IndInv, TypeOK
  <2>2. verdict = ParseVerdict(reply)
    BY DEF IndInv
  <2>3. AutoHide \in 0..100
    BY ThresholdAssumption
  <2>4. CASE reply.verdict = Garbled
    <3>1. verdict.verdict = "escalate"
      BY <2>2, <2>4 DEF ParseVerdict
    <3> QED
      BY <2>1, <3>1, Decision DEF ActionOf
  <2>5. CASE ~reply.hasConfidence /\ reply.severity = Garbled
    <3>1. verdict.confidence = 50 /\ verdict.severity = "medium"
      BY <2>2, <2>5 DEF ParseVerdict
    <3>2. verdict.verdict \in {"allow", "hide", "remove", "escalate"}
      BY <2>1 DEF Verdict, VerdictTags
    <3>3. ActionOf(mode, verdict) = "allow"
      BY <2>3, <3>1, <3>2 DEF ActionOf
    <3> QED
      BY <2>1, <2>3, <3>1, <3>3, Decision
  <2> QED
    BY <2>4, <2>5
<1> QED
  BY <1>1, DecisionInvariant, PTL
=============================================================================
