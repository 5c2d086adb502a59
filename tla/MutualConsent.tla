--------------------------- MODULE MutualConsent ---------------------------
(***************************************************************************)
(* What identity reveal promises, without conversations, connections or    *)
(* handlers: two users see each other's real name only after one of them   *)
(* asked the other for it and the other agreed, or after two users did who *)
(* named a connection of these two in their request; and nobody can agree  *)
(* to what was never asked.  What was asked, named and agreed to is never  *)
(* forgotten; the disclosure itself may be taken back.                     *)
(***************************************************************************)
CONSTANT Users

VARIABLES asked,     \* <<u, v>>: u asked v to reveal identities
          agreed,    \* <<v, u>>: v agreed to what u asked
          named,     \* <<p, q>>: p[1]'s request to p[2] named a connection of q
          disclosed  \* <<u, v>>: u and v see each other's real name

vars == <<asked, agreed, named, disclosed>>

Pairs == Users \X Users

(* One of u and v asked and the other agreed, by the record s and t.       *)
ConsentIn(s, t, u, v) == \/ <<u, v>> \in s /\ <<v, u>> \in t
                         \/ <<v, u>> \in s /\ <<u, v>> \in t

(* Somebody's consent covers the names of p, by the records s, t and n.    *)
CoveredIn(s, t, n, p) ==
  \/ ConsentIn(s, t, p[1], p[2])
  \/ \E q \in Pairs : <<q, p>> \in n /\ ConsentIn(s, t, q[1], q[2])

Init == asked = {} /\ agreed = {} /\ named = {} /\ disclosed = {}

Ask(u, v) == /\ asked' = asked \cup {<<u, v>>}
             /\ named \subseteq named'
             /\ named' \ named \subseteq {<<u, v>>} \X Pairs
             /\ UNCHANGED <<agreed, disclosed>>

(* An agreement may be a disclosure at once, or later, piece by piece.     *)
Agree(v, u) == /\ <<u, v>> \in asked
               /\ agreed' = agreed \cup {<<v, u>>}
               /\ disclosed' \in {disclosed, disclosed \cup {<<u, v>>, <<v, u>>}}
               /\ UNCHANGED <<asked, named>>

Disclose == /\ disclosed' \in SUBSET Pairs
            /\ disclosed \subseteq disclosed'
            /\ \A p \in disclosed' : CoveredIn(asked, agreed, named, p)
            /\ UNCHANGED <<asked, agreed, named>>

TakeBack == /\ disclosed' \in SUBSET disclosed
            /\ UNCHANGED <<asked, agreed, named>>

Next == \/ \E u, v \in Users : Ask(u, v) \/ Agree(v, u)
        \/ Disclose \/ TakeBack

Spec == Init /\ [][Next]_vars
============================================================================
