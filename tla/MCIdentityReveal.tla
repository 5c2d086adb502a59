-------------------------- MODULE MCIdentityReveal --------------------------
(* IdentityReveal on small instances.  The ids of rows and of calls are    *)
(* interchangeable, and so are the users who do not own the post.          *)
EXTENDS IdentityReveal, TLC

CONSTANTS ann, ben, cam, p1

JustBen == (p1 :> ben)
NoOwner == [p \in {} |-> ann]
OneSlot == (p1 :> 1)

RowSymmetry == Permutations(Reveals) \cup Permutations(Conversations)
                 \cup Permutations(Connections) \cup Permutations(Calls)
                 \cup Permutations({ann, cam})
=============================================================================
