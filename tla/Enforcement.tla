---------------------------- MODULE Enforcement ----------------------------
(***************************************************************************)
(* The two pure steps between the language model's reply and what the      *)
(* platform does about a piece of content:                                 *)
(*                                                                         *)
(*   ParseVerdict   EditorialService.parseVerdict: defaults and clamping   *)
(*   Decide         EnforcementService.decide: verdict x severity x        *)
(*                  confidence x rollout mode                              *)
(*                                                                         *)
(* Confidences are percentages: 75 stands for 0.75.  A reply field the     *)
(* model left out, or gave the wrong type, is Garbled.                     *)
(***************************************************************************)
EXTENDS Integers

CONSTANTS AutoHide,    \* MODERATION_AUTO_HIDE_CONFIDENCE, in percent
          AutoRemove   \* MODERATION_AUTO_REMOVE_CONFIDENCE, in percent

ASSUME ThresholdAssumption ==
         /\ AutoHide \in 0..100
         /\ AutoRemove \in 0..100

Modes      == {"shadow", "allow_only", "hide_enabled", "full"}
VerdictTags == {"allow", "hide", "remove", "escalate"}
Severities == {"none", "low", "medium", "high", "critical"}
Categories == {"crisis_signal", "self_harm", "sexual", "threat", "doxing",
               "spam", "harassment"}

INSTANT_REMOVE_CATEGORIES == {"sexual", "threat", "doxing", "spam"}

Verdict == [verdict : VerdictTags, severity : Severities,
            confidence : 0..100, categories : SUBSET Categories]

Actions    == {"allow", "hide", "remove"}
AiStatuses == {"allowed", "pending_review", "hidden", "removed"}
Priorities == {"low", "normal", "high", "urgent"}
Reasons    == {"", "crisis_signal", "shadow_mode", "low_confidence_allow",
               "high_severity_allow", "hide_in_allow_only_mode",
               "low_confidence_hide", "high_severity_hide", "auto_hide",
               "remove_downgraded_by_mode", "remove_downgraded_low_severity",
               "instant_remove", "high_severity_remove_needs_review",
               "critical_instant_remove", "critical_needs_review",
               "remove_fallback", "ai_escalated", "system_error"}

EnforcementResult ==
  [action : Actions, moderationStatus : AiStatuses, needsReview : BOOLEAN,
   reviewPriority : Priorities, reviewReason : Reasons,
   sendSafetyDm : BOOLEAN]

Result(action, status, needsReview, priority, reason) ==
  [action |-> action, moderationStatus |-> status,
   needsReview |-> needsReview, reviewPriority |-> priority,
   reviewReason |-> reason, sendSafetyDm |-> FALSE]

----------------------------------------------------------------------------
(* parseVerdict.  A reply that is no JSON object at all makes it throw and *)
(* is not a Reply; NoReply below is the outcome of that.                   *)

Garbled == "garbled"

Reply == [verdict : VerdictTags \cup {Garbled},
          severity : Severities \cup {Garbled},
          confidence : Int,            \* any number; clamped to 0..100
          hasConfidence : BOOLEAN,     \* typeof confidence = 'number'
          categories : SUBSET Categories,
          hasCategories : BOOLEAN]     \* Array.isArray(categories)

Clamp(n) == IF n < 0 THEN 0 ELSE IF n > 100 THEN 100 ELSE n

(* Mutant: the clamp to 0..1 is forgotten.                                 *)
ParseVerdictUnclamped(reply) ==
  [verdict    |-> IF reply.verdict = Garbled THEN "escalate" ELSE reply.verdict,
   severity   |-> IF reply.severity = Garbled THEN "medium" ELSE reply.severity,
   confidence |-> IF reply.hasConfidence THEN reply.confidence ELSE 50,
   categories |-> IF reply.hasCategories THEN reply.categories ELSE {}]

(* Mutant: a missing confidence counts as certainty.                       *)
ParseVerdictTrusting(reply) ==
  [verdict    |-> IF reply.verdict = Garbled THEN "escalate" ELSE reply.verdict,
   severity   |-> IF reply.severity = Garbled THEN "medium" ELSE reply.severity,
   confidence |-> IF reply.hasConfidence THEN Clamp(reply.confidence) ELSE 100,
   categories |-> IF reply.hasCategories THEN reply.categories ELSE {}]

ParseVerdict(reply) ==
  [verdict    |-> IF reply.verdict = Garbled THEN "escalate" ELSE reply.verdict,
   severity   |-> IF reply.severity = Garbled THEN "medium" ELSE reply.severity,
   confidence |-> IF reply.hasConfidence THEN Clamp(reply.confidence) ELSE 50,
   categories |-> IF reply.hasCategories THEN reply.categories ELSE {}]

----------------------------------------------------------------------------
(* decide                                                                  *)

CrisisSignal(v) ==
  \/ "crisis_signal" \in v.categories
  \/ /\ "self_harm" \in v.categories
     /\ v.severity \in {"medium", "high", "critical"}

HasInstantCategory(v) == v.categories \cap INSTANT_REMOVE_CATEGORIES # {}

CrisisOverride ==
  [Result("allow", "pending_review", TRUE, "urgent", "crisis_signal")
     EXCEPT !.sendSafetyDm = TRUE]

HandleAllow(v) ==
  CASE v.confidence < AutoHide ->
         Result("allow", "allowed", TRUE, "normal", "low_confidence_allow")
    [] v.confidence >= AutoHide /\ v.severity \in {"none", "low"} ->
         Result("allow", "allowed", FALSE, "low", "")
    [] OTHER ->
         Result("allow", "allowed", TRUE, "low", "high_severity_allow")

(* Mutant: the threshold test the wrong way round.                         *)
HandleHideInverted(mode, v) ==
  IF mode = "allow_only" \/ v.confidence > AutoHide
  THEN Result("allow", "pending_review", TRUE, "normal",
              "low_confidence_hide")
  ELSE Result("hide", "hidden", TRUE, "normal", "auto_hide")

HandleHide(mode, v) ==
  CASE mode = "allow_only" ->
         Result("allow", "pending_review", TRUE, "normal",
                "hide_in_allow_only_mode")
    [] mode # "allow_only" /\ v.confidence < AutoHide ->
         Result("allow", "pending_review", TRUE, "normal",
                "low_confidence_hide")
    [] OTHER ->
         IF v.severity \in {"high", "critical"}
         THEN Result("hide", "hidden", TRUE, "high", "high_severity_hide")
         ELSE Result("hide", "hidden", TRUE, "normal", "auto_hide")

(* Mutant: the two rollout modes swapped.                                  *)
RemoveInModeSwapped(mode, v) ==
  Result(IF mode = "allow_only" /\ v.confidence >= AutoHide
           THEN "hide" ELSE "allow",
         "pending_review", TRUE, "high", "remove_downgraded_by_mode")

(* A remove verdict while the rollout mode does not enforce removals.      *)
RemoveInMode(mode, v) ==
  Result(IF mode = "hide_enabled" /\ v.confidence >= AutoHide
           THEN "hide" ELSE "allow",
         "pending_review", TRUE, "high", "remove_downgraded_by_mode")

(* Mutant: instant removal on confidence OR category, not both.            *)
RemoveBySeverityEither(v) ==
  IF v.severity = "high" /\ (v.confidence >= AutoRemove \/ HasInstantCategory(v))
  THEN Result("remove", "removed", FALSE, "high", "instant_remove")
  ELSE Result("hide", "hidden", TRUE, "high", "remove_fallback")

(* A remove verdict once removals are enforced, by severity.               *)
RemoveBySeverity(v) ==
  CASE v.severity \in {"low", "medium"} ->
         IF v.confidence >= AutoHide
         THEN Result("hide", "hidden", TRUE, "high",
                     "remove_downgraded_low_severity")
         ELSE Result("allow", "pending_review", TRUE, "high",
                     "remove_downgraded_low_severity")
    [] v.severity = "high" ->
         IF v.confidence >= AutoRemove /\ HasInstantCategory(v)
         THEN Result("remove", "removed", FALSE, "high", "instant_remove")
         ELSE Result("hide", "hidden", TRUE, "high",
                     "high_severity_remove_needs_review")
    [] v.severity = "critical" ->
         IF v.confidence >= 85 /\ HasInstantCategory(v)
         THEN Result("remove", "removed", TRUE, "urgent",
                     "critical_instant_remove")
         ELSE Result("hide", "hidden", TRUE, "urgent",
                     "critical_needs_review")
    [] OTHER -> Result("hide", "hidden", TRUE, "high", "remove_fallback")

HandleRemove(mode, v) ==
  IF mode \in {"allow_only", "hide_enabled"}
  THEN RemoveInMode(mode, v)
  ELSE RemoveBySeverity(v)

HandleEscalate ==
  Result("allow", "pending_review", TRUE, "normal", "ai_escalated")

(* Mutant: shadow mode returns before the crisis override is looked at.    *)
DecideShadowFirst(mode, v) ==
  CASE mode = "shadow" ->
         Result("allow", "pending_review", TRUE, "normal", "shadow_mode")
    [] mode # "shadow" /\ CrisisSignal(v) -> CrisisOverride
    [] OTHER -> HandleEscalate

Decide(mode, v) ==
  CASE CrisisSignal(v) -> CrisisOverride
    [] ~CrisisSignal(v) /\ mode = "shadow" ->
         Result("allow", "pending_review", TRUE, "normal", "shadow_mode")
    [] OTHER ->
         CASE v.verdict = "allow"    -> HandleAllow(v)
           [] v.verdict = "hide"     -> HandleHide(mode, v)
           [] v.verdict = "remove"   -> HandleRemove(mode, v)
           [] v.verdict = "escalate" -> HandleEscalate
============================================================================
