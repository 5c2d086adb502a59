----------------------- MODULE MCEditorialModeration -----------------------
(* EditorialModeration for TLC: verdicts that take each way out of the     *)
(* enforcement matrix, and symmetric staff, workers and reporters.         *)
EXTENDS EditorialModeration, TLC

V(verdict, severity, confidence, categories) ==
  [verdict |-> verdict, severity |-> severity, confidence |-> confidence,
   categories |-> categories]

vAllow  == V("allow", "none", 95, {})
vUnsure == V("hide", "medium", 60, {"harassment"})
vHide   == V("hide", "medium", 80, {"harassment"})
vRemove == V("remove", "high", 95, {"spam"})
vCrisis == V("hide", "high", 90, {"self_harm"})

OnlyHide      == {vHide}
OnlyRemove    == {vRemove}
HideOrAllow   == {vHide, vAllow}
HideOrRemove  == {vHide, vRemove}
EveryOutcome  == {vAllow, vHide, vRemove, vCrisis}
UnsureOrHide  == {vUnsure, vHide}

CONSTANTS c1, c2, w1, w2, s1, s2, r1, r2, r3, r4
Processes == Permutations({w1, w2}) \cup Permutations({r1, r2, r3})
               \cup Permutations({s1, s2})
FlagSymmetry == Permutations({r1, r2, r3, r4})

(* A short item and one with flags, not both in one behaviour.             *)
OneItem == c2 \in posted => c1 \notin posted
============================================================================
