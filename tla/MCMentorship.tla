---------------------------- MODULE MCMentorship ----------------------------
(* Mentorship for two users, one of whom can mentor the other.             *)
EXTENDS Mentorship, TLC

RowSymmetry == Permutations(Requests) \cup Permutations(MSessions)
                 \cup Permutations(Calls)

(* A second request is followed up to its answer, not into the sessions.   *)
OneRequestWithSessions ==
  Cardinality(RowIds(requests)) < 2 \/ RowIds(meetings) = {}
=============================================================================
