------------------------- MODULE ContentVisibility -------------------------
(***************************************************************************)
(* What moderation promises about the visibility of content, without       *)
(* queues, tables or processes: content is hidden only on grounds that     *)
(* exist at that moment - a verdict that warrants it, the decision of a    *)
(* moderator, or enough flags - and becomes visible again only while some  *)
(* moderator is restoring it.  Grounds, once given, are not withdrawn.     *)
(***************************************************************************)
CONSTANTS Content, Sources

VARIABLES hidden,     \* hidden[c]: nobody but c's author sees c
          grounds,    \* grounds[c]: the sources that may have c hidden
          restoring   \* content some moderator is restoring

vars == <<hidden, grounds, restoring>>

TypeOK == /\ hidden \in [Content -> BOOLEAN]
          /\ grounds \in [Content -> SUBSET Sources]
          /\ restoring \subseteq Content

Init == /\ hidden = [c \in Content |-> FALSE]
        /\ grounds = [c \in Content |-> {}]
        /\ restoring = {}

Accuse(c, source) == /\ grounds' = [grounds EXCEPT ![c] = @ \cup {source}]
                     /\ UNCHANGED <<hidden, restoring>>

Hide(c) == /\ grounds[c] # {}
           /\ hidden' = [hidden EXCEPT ![c] = TRUE]
           /\ UNCHANGED <<grounds, restoring>>

BeginRestore(c) == /\ restoring' = restoring \cup {c}
                   /\ UNCHANGED <<hidden, grounds>>

(* Another moderator may still be restoring c afterwards.                  *)
Restore(c) == /\ c \in restoring
              /\ hidden' = [hidden EXCEPT ![c] = FALSE]
              /\ restoring' \in {restoring, restoring \ {c}}
              /\ UNCHANGED grounds

GiveUp(c) == /\ c \in restoring
             /\ restoring' = restoring \ {c}
             /\ UNCHANGED <<hidden, grounds>>

Next == \E c \in Content : \/ \E source \in Sources : Accuse(c, source)
                           \/ Hide(c) \/ BeginRestore(c) \/ Restore(c)
                           \/ GiveUp(c)

Spec == Init /\ [][Next]_vars
============================================================================
