------------------------------- MODULE GrowArc -------------------------------
(***************************************************************************)
(* What the coach promises of every session: it goes through the stages of *)
(* the GROW conversation in their order, one at a time and none left out,  *)
(* however many messages it spends in each.                                *)
(***************************************************************************)
EXTENDS Naturals

CONSTANTS Conversations, \* the sessions
          Stages         \* the number of stages of the arc

VARIABLE furthest        \* [Conversations -> 0..Stages], 0: not begun

Init == furthest = [s \in Conversations |-> 0]

Advance(s) == /\ furthest[s] < Stages
              /\ furthest' = [furthest EXCEPT ![s] = @ + 1]

Next == \E s \in Conversations : Advance(s)

Spec == Init /\ [][Next]_furthest
=============================================================================
