------------------------------ MODULE Rulebook ------------------------------
(***************************************************************************)
(* The rulebook the coach learns from feedback: each comment is distilled  *)
(* into a raw lesson, and every night, or when somebody asks for it, the   *)
(* lessons and the present rules are merged by a language model into a new *)
(* set of rules that replaces the old in one transaction.  A set of rules  *)
(* is its id; the rules of one set are written and retired together.       *)
(*                                                                         *)
(* The history variable swapsApart says that no two transactions that      *)
(* replace the rulebook overlapped.                                        *)
(***************************************************************************)
EXTENDS Handlers, Integers, FiniteSets

CONSTANTS
  RuleSets,     \* ids of the sets of rules
  MaxLessons    \* bound: raw lessons

VARIABLES
  lessons,      \* coaching_learnings that are active; nothing retires them
  book,         \* the sets whose rows in coaching_rulebook are active
  swaps,        \* [Calls -> None or a consolidation or reader in progress]
  published,    \* history: the sets that were committed
  swapsApart    \* history, see above

rulebookVars == <<lessons, book, swaps, published, swapsApart>>

RulebookInit ==
  /\ lessons = 0
  /\ book = {}
  /\ swaps = [c \in Calls |-> None]
  /\ published = {}
  /\ swapsApart = TRUE

SwapGoes(c, at) == swaps' = [swaps EXCEPT ![c].at = at]
SwapEnds(c)     == swaps' = [swaps EXCEPT ![c] = None]

SwapCall(at) == [at |-> at, seen |-> {}, retired |-> {}, set |-> None, late |-> published # {}]

InTransaction(c) == swaps[c] # None /\ swaps[c].at \in {"wait", "insert", "commit"}

----------------------------------------------------------------------------
(* distill, which submitFeedback does not wait for.                        *)
Distill == /\ lessons < MaxLessons
           /\ lessons' = lessons + 1
           /\ UNCHANGED <<book, swaps, published, swapsApart>>

(* consolidate: the present rules and the raw lessons, read in any order;  *)
(* the model is asked unless both are empty, and its answer may be no set. *)
Consolidate(c) ==
  /\ swaps[c] = None
  /\ book # {} \/ lessons > 0
  /\ swaps' = [swaps EXCEPT ![c] = SwapCall("ask")]
  /\ UNCHANGED <<lessons, book, published, swapsApart>>

AskModel(c) ==
  /\ Waits(swaps[c], "ask")
  /\ \/ SwapEnds(c)
     \/ \E s \in RuleSets \ published :
          /\ \A d \in RowIds(swaps) : swaps[d].set # s
          /\ swaps' = [swaps EXCEPT ![c].at = "retire", ![c].set = s]
  /\ UNCHANGED <<lessons, book, published, swapsApart>>

(* replaceRulebook.  The update sees the sets that are committed; it waits *)
(* for another transaction that has retired one of them and then retires   *)
(* those that are still active.                                            *)
BeginSwap(c) ==
  /\ Waits(swaps[c], "retire")
  /\ swaps' = [swaps EXCEPT ![c].at = "wait", ![c].seen = book]
  /\ swapsApart' = (swapsApart /\ \A d \in Calls : ~InTransaction(d))
  /\ UNCHANGED <<lessons, book, published>>

RetireAlone(c) ==
  /\ Waits(swaps[c], "wait")
  /\ book' = book \ swaps[c].seen
  /\ swaps' = [swaps EXCEPT ![c].at = "insert"]
  /\ UNCHANGED <<lessons, published, swapsApart>>

Retire(c) ==
  /\ Waits(swaps[c], "wait")
  /\ \A d \in RowIds(swaps) : swaps[c].seen \cap swaps[d].retired = {}
  /\ swaps' = [swaps EXCEPT ![c].at = "insert", ![c].retired = swaps[c].seen \cap book]
  /\ UNCHANGED <<lessons, book, published, swapsApart>>

InsertRules(c) ==
  /\ Waits(swaps[c], "insert")
  /\ SwapGoes(c, "commit")
  /\ UNCHANGED <<lessons, book, published, swapsApart>>

CommitSwap(c) ==
  /\ Waits(swaps[c], "commit")
  /\ book' = (book \ swaps[c].retired) \cup {swaps[c].set}
  /\ published' = published \cup {swaps[c].set}
  /\ SwapEnds(c)
  /\ UNCHANGED <<lessons, swapsApart>>

(* Before the commit a failure, or the end of the process, rolls back.     *)
RollBack(c) ==
  /\ InTransaction(c)
  /\ SwapEnds(c)
  /\ UNCHANGED <<lessons, book, published, swapsApart>>

----------------------------------------------------------------------------
(* getRules, for each turn of each session: the rulebook, or the newest    *)
(* raw lessons if there is none.                                           *)
GetRules(c) ==
  /\ swaps[c] = None
  /\ swaps' = [swaps EXCEPT ![c] = SwapCall("read")]
  /\ UNCHANGED <<lessons, book, published, swapsApart>>

ReadRules(c) ==
  /\ Waits(swaps[c], "read")
  /\ swaps' = [swaps EXCEPT ![c].at = IF book # {} THEN "rules" ELSE "lessons", ![c].seen = book]
  /\ UNCHANGED <<lessons, book, published, swapsApart>>

UseRules(c) ==
  /\ Waits(swaps[c], "rules") \/ Waits(swaps[c], "lessons")
  /\ SwapEnds(c)
  /\ UNCHANGED <<lessons, book, published, swapsApart>>

RulebookStep(c) ==
  \/ Consolidate(c) \/ AskModel(c) \/ BeginSwap(c) \/ Retire(c) \/ InsertRules(c)
  \/ CommitSwap(c) \/ RollBack(c) \/ GetRules(c) \/ ReadRules(c) \/ UseRules(c)

RulebookNext == Distill \/ \E c \in Calls : RulebookStep(c)

RulebookSpec == RulebookInit /\ [][RulebookNext]_rulebookVars

----------------------------------------------------------------------------
(* Once a rulebook was published the coach never falls back to raw lessons:*)
(* whatever fails and however consolidations overlap there are rules, they *)
(* come in whole sets, and as long as no two replacements overlap they are *)
(* one set (replaceRulebook in coach-repository.service.ts, getRules in    *)
(* coach-learning.service.ts).                                             *)
RulebookSurvives ==
  /\ published # {} => book # {}
  /\ book \subseteq published
  /\ swapsApart => Cardinality(book) <= 1
  /\ \A c \in RowIds(swaps) : swaps[c].at = "lessons" => ~swaps[c].late
=============================================================================
