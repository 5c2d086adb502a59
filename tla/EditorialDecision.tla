------------------------- MODULE EditorialDecision -------------------------
(***************************************************************************)
(* One reply of the language model on its way through the worker:          *)
(* received, parsed, decided.  The state machine exists to let TLC visit   *)
(* every combination of reply and rollout mode of a bounded set; the       *)
(* definitions it exercises are those of Enforcement.                      *)
(***************************************************************************)
EXTENDS Enforcement

CONSTANT Replies      \* the replies the model may give

ASSUME RepliesAssumption == Replies \subseteq Reply

VARIABLES phase,      \* "received", "parsed" or "decided"
          mode,       \* MODERATION_MODE, read when the service is built
          reply,      \* the JSON object the model returned
          verdict,    \* what parseVerdict made of it
          result      \* what decide made of that

vars == <<phase, mode, reply, verdict, result>>

NoVerdict == [verdict |-> "escalate", severity |-> "none",
              confidence |-> 0, categories |-> {}]
NoResult  == Result("allow", "allowed", FALSE, "low", "")

Init == /\ phase = "received"
        /\ mode \in Modes
        /\ reply \in Replies
        /\ verdict = NoVerdict
        /\ result = NoResult

Parse == /\ phase = "received"
         /\ verdict' = ParseVerdict(reply)
         /\ phase' = "parsed"
         /\ UNCHANGED <<mode, reply, result>>

Enforce == /\ phase = "parsed"
           /\ result' = Decide(mode, verdict)
           /\ phase' = "decided"
           /\ UNCHANGED <<mode, reply, verdict>>

Next == Parse \/ Enforce

Spec == Init /\ [][Next]_vars

----------------------------------------------------------------------------
(* Properties                                                              *)

Rank(action) == CASE action = "allow"  -> 0
                  [] action = "hide"   -> 1
                  [] action = "remove" -> 2

(* Every reply, however malformed its fields, becomes a verdict and a      *)
(* result of the declared shapes (parseVerdict's "safe defaults").         *)
TypeOK == /\ phase \in {"received", "parsed", "decided"}
          /\ mode \in Modes
          /\ reply \in Reply
          /\ verdict \in Verdict
          /\ result \in EnforcementResult

(* Rolling the mode forward, shadow -> allow_only -> hide_enabled -> full, *)
(* never makes the platform do less about the same verdict: no step of the *)
(* rollout un-enforces what an earlier one enforced.                       *)
RolloutNeverWeakens ==
  phase = "parsed" =>
    /\ Rank(Decide("shadow", verdict).action)
         <= Rank(Decide("allow_only", verdict).action)
    /\ Rank(Decide("allow_only", verdict).action)
         <= Rank(Decide("hide_enabled", verdict).action)
    /\ Rank(Decide("hide_enabled", verdict).action)
         <= Rank(Decide("full", verdict).action)

(* A model that is more sure of the same verdict never gets a weaker       *)
(* action out of the matrix, across the three thresholds 0.75, 0.85, 0.90. *)
MoreConfidenceNeverWeakens ==
  phase = "decided" =>
    \A n \in {AutoHide, 85, AutoRemove, 100} :
      n >= verdict.confidence =>
        Rank(result.action) <=
          Rank(Decide(mode, [verdict EXCEPT !.confidence = n]).action)

(* A human is left out of the loop in two cases only: a confident allow of *)
(* low severity, and the instant removal of a listed category at the       *)
(* removal threshold with removals switched on.                            *)
UnreviewedOnlyWhenClear ==
  phase = "decided" /\ ~result.needsReview =>
    \/ /\ verdict.verdict = "allow"
       /\ verdict.confidence >= AutoHide
       /\ verdict.severity \in {"none", "low"}
       /\ result.action = "allow"
    \/ /\ verdict.verdict = "remove"
       /\ verdict.severity = "high"
       /\ verdict.confidence >= AutoRemove
       /\ HasInstantCategory(verdict)
       /\ mode = "full"

(* A cry for help is never acted on, in any mode and whatever else the     *)
(* reply says, and always reaches a human as urgent with the safety        *)
(* message sent to its author.                                             *)
CrisisReachesHuman ==
  phase = "decided" /\ CrisisSignal(verdict) =>
    /\ result.action = "allow"
    /\ result.needsReview
    /\ result.reviewPriority = "urgent"
    /\ result.sendSafetyDm

(* A reply too broken to carry a verdict, or one with neither a usable     *)
(* confidence nor a usable severity, leaves the content visible and goes   *)
(* to a human unless it plainly said "allow".                              *)
GarbledReplyFailsOpen ==
  phase = "decided" /\ ( \/ reply.verdict = Garbled
                         \/ ~reply.hasConfidence /\ reply.severity = Garbled ) =>
    /\ result.action = "allow"
    /\ result.needsReview
============================================================================
