---------------------------- MODULE GuidanceProofs ----------------------------
(***************************************************************************)
(* What guides a user: coaching sessions, the rulebook of the coach and    *)
(* the insights of Okestra, for any number of sessions, turns,             *)
(* consolidations, calls, posts and attempts, and an arc of any length.    *)
(***************************************************************************)
EXTENDS Coaching, Rulebook, InsightsCache, FiniteSetTheorems, TLAPS

----------------------------------------------------------------------------
(* Coaching.  It is type correct, stores no stage the coach has not spoken *)
(* from, redirects nobody without a safety event, sees that a crisis gets  *)
(* its ticket, and implements GrowArc.                                     *)
(*                                                                         *)
(* A turn resolves its stage from one it read before the model was called. *)
(* The invariant that carries the arc is that what the coach has said of a *)
(* session, its first stage included, is always 1..n: a turn adds n + 1 or *)
(* something it has already.                                               *)

Spoken(s) == said[s] \cup {1}

SessionOK(s) ==
  /\ csessions[s] = None => said[s] = {}
  /\ csessions[s] # None => csessions[s].stage \in Spoken(s)
  /\ \E n \in Stages : Spoken(s) = 1..n

Turning  == {"greet", "reopen", "classify", "countTurns", "close", "recap", "summarise", "number"}
InCrisis == {"crisisTurn", "logEvent", "redirect", "crisisEnd", "logFlag"}
Answered == {"goal", "coachTurn", "stage", "finish"}

CallOK(c) ==
  ccalls[c] # None =>
    LET k == ccalls[c]
    IN /\ csessions[k.on] # None
       /\ k.at # "ticket" => k.stage \in Spoken(k.on)
       /\ k.at = "redirect" => <<k.on, k.category, "redirect">> \in events
       /\ k.at \in Answered => k.next \in {k.stage, k.stage + 1}
       /\ k.at \in {"stage", "finish"} => k.next \in Spoken(k.on)

IndInv ==
  /\ CoachingTypeOK
  /\ IsFiniteSet(tickets)
  /\ \A s \in CSessions : SessionOK(s)
  /\ RedirectIsLogged
  /\ \A c \in Calls : CallOK(c)

(* The shape of a call in progress, by what it waits for.                  *)
LEMMA ShapeOfCall ==
  ASSUME CoachingTypeOK, NEW c \in Calls, ccalls[c] # None
  PROVE  LET k == ccalls[c]
         IN /\ k.on \in CSessions
            /\ k.at \in Turning => k \in [at : Turning, on : CSessions, stage : Stages]
            /\ k.at = "openStage" => k \in [at : {"openStage"}, on : CSessions, stage : Stages]
            /\ k.at \in InCrisis =>
                 k \in [at : InCrisis, on : CSessions, stage : Stages, category : Crises]
            /\ k.at \in {"clientTurn", "model"} =>
                 k \in [at : {"clientTurn", "model"}, on : CSessions, stage : Stages, first : BOOLEAN]
            /\ k.at \in Answered =>
                 k \in [at : Answered, on : CSessions, stage : Stages, next : Stages,
                        goal : Goals \cup {None}, done : BOOLEAN]
            /\ k.at = "ticket" => k \in [at : {"ticket"}, on : CSessions, number : Nat]
<1>1. ccalls[c] \in CoachingCall
  BY DEF CoachingTypeOK
<1> QED
  BY <1>1 DEF CoachingCall, Turning, InCrisis, Answered

LEMMA CallTypes ==
  /\ [at : Turning, on : CSessions, stage : Stages] \subseteq CoachingCall
  /\ [at : {"openStage"}, on : CSessions, stage : Stages] \subseteq CoachingCall
  /\ [at : InCrisis, on : CSessions, stage : Stages, category : Crises] \subseteq CoachingCall
  /\ [at : {"clientTurn", "model"}, on : CSessions, stage : Stages, first : BOOLEAN]
       \subseteq CoachingCall
  /\ [at : Answered, on : CSessions, stage : Stages, next : Stages,
      goal : Goals \cup {None}, done : BOOLEAN] \subseteq CoachingCall
  /\ [at : {"ticket"}, on : CSessions, number : Nat] \subseteq CoachingCall
BY DEF CoachingCall, Turning, InCrisis, Answered

----------------------------------------------------------------------------
(* What every step keeps: sessions stay, words and events are never taken  *)
(* back.                                                                   *)
Kept ==
  /\ \A s \in CSessions : csessions[s] # None => csessions'[s] # None
  /\ \A s \in CSessions : said[s] \subseteq said'[s]
  /\ events \subseteq events'

LEMMA OtherCalls ==
  ASSUME CoachingTypeOK, Kept, NEW d \in Calls, CallOK(d), ccalls'[d] = ccalls[d]
  PROVE  CallOK(d)'
<1> SUFFICES ASSUME ccalls[d] # None
             PROVE  CallOK(d)'
  BY DEF CallOK
<1>1. ccalls[d].on \in CSessions
  BY ShapeOfCall
<1> QED
  BY <1>1 DEF CallOK, Kept, Spoken

(* A step of call c is right when the sessions it changes are, and what c  *)
(* remembers is.                                                           *)
LEMMA StepOfCall ==
  ASSUME IndInv, Kept, CoachingTypeOK', RedirectIsLogged', IsFiniteSet(tickets'),
         NEW c \in Calls, NEW k, ccalls' = [ccalls EXCEPT ![c] = k], CallOK(c)',
         \A s \in CSessions : UNCHANGED <<csessions[s], said[s]>> \/ SessionOK(s)'
  PROVE  IndInv'
<1>1. \A d \in Calls : d # c => ccalls'[d] = ccalls[d]
  BY DEF IndInv, CoachingTypeOK
<1>2. \A d \in Calls : d # c => CallOK(d)'
  BY <1>1, OtherCalls DEF IndInv
<1>3. \A s \in CSessions : SessionOK(s)'
  BY DEF IndInv, SessionOK, Spoken
<1> QED
  BY <1>2, <1>3 DEF IndInv

(* A step that leaves sessions, words, events and redirects alone needs no *)
(* more than its own call right.                                           *)
LEMMA QuietStep ==
  ASSUME IndInv, UNCHANGED <<csessions, said, events, redirects>>,
         turns' \in [CSessions -> Nat], dropped' \subseteq CSessions,
         tickets' \subseteq CSessions \X Nat, IsFiniteSet(tickets'),
         NEW c \in Calls, NEW k \in CoachingCall \cup {None},
         ccalls' = [ccalls EXCEPT ![c] = k], CallOK(c)'
  PROVE  IndInv'
<1>1. Kept
  BY DEF Kept
<1>2. CoachingTypeOK' /\ RedirectIsLogged'
  BY DEF IndInv, CoachingTypeOK, RedirectIsLogged
<1> QED
  BY <1>1, <1>2, StepOfCall

(* A call that ends leaves nothing to be right about.                      *)
LEMMA EndedCall ==
  ASSUME CoachingTypeOK, NEW c \in Calls, ccalls' = [ccalls EXCEPT ![c] = None]
  PROVE  CallOK(c)'
BY DEF CallOK, CoachingTypeOK

(* A call that only moves on to the same turn's next statement.            *)
LEMMA TurnGoesOn ==
  ASSUME IndInv, Kept, NEW c \in Calls, ccalls[c] # None, ccalls[c].at # "ticket",
         NEW at \in Turning, ccalls' = [ccalls EXCEPT ![c] = Turn(c, at)]
  PROVE  /\ Turn(c, at) \in CoachingCall
         /\ CallOK(c)'
<1>1. ccalls[c].on \in CSessions /\ ccalls[c].stage \in Stages
  BY ShapeOfCall DEF IndInv, Turning, InCrisis, Answered, CoachingTypeOK, CoachingCall
<1>2. Turn(c, at) \in [at : Turning, on : CSessions, stage : Stages]
  BY <1>1 DEF Turn
<1>3. Turn(c, at) \in CoachingCall
  BY <1>2, CallTypes
<1>4. ccalls'[c] = Turn(c, at)
  BY DEF IndInv, CoachingTypeOK
<1>5. ccalls'[c].on = ccalls[c].on /\ ccalls'[c].stage = ccalls[c].stage /\ ccalls'[c].at = at
  BY <1>4 DEF Turn
<1>6. csessions'[ccalls[c].on] # None /\ ccalls[c].stage \in said'[ccalls[c].on] \cup {1}
  BY <1>1 DEF IndInv, CallOK, Kept, Spoken
<1>7. at \notin Answered \cup {"redirect", "ticket"}
  BY DEF Turning, Answered
<1>8. CallOK(c)'
  BY <1>5, <1>6, <1>7 DEF CallOK, Answered, Spoken
<1> QED
  BY <1>3, <1>8
----------------------------------------------------------------------------
(* A change of a session's row that leaves its stage among those spoken.   *)
LEMMA RowWritten ==
  ASSUME IndInv, NEW c \in Calls, NEW k \in CoachingCall \cup {None},
         ccalls' = [ccalls EXCEPT ![c] = k],
         UNCHANGED <<said, turns, events, redirects, tickets, dropped>>,
         NEW s \in CSessions, csessions[s] # None, NEW row \in CSession,
         csessions' = [csessions EXCEPT ![s] = row], row.stage \in Spoken(s),
         Kept => CallOK(c)'
  PROVE  IndInv'
<1>1. row # None
  BY CoachingAssumption
<1>2. csessions'[s] = row /\ \A t \in CSessions : t # s => csessions'[t] = csessions[t]
  BY DEF IndInv, CoachingTypeOK
<1>3. Kept
  BY <1>1, <1>2 DEF Kept
<1>4. CoachingTypeOK' /\ RedirectIsLogged' /\ IsFiniteSet(tickets')
  BY DEF IndInv, CoachingTypeOK, RedirectIsLogged
<1>5. SessionOK(s)'
  BY <1>1, <1>2 DEF IndInv, SessionOK, Spoken
<1> QED
  BY <1>2, <1>3, <1>4, <1>5, StepOfCall

(* The row of the session a call is about.                                 *)
LEMMA RowOfCall ==
  ASSUME IndInv, NEW c \in Calls, ccalls[c] # None
  PROVE  /\ ccalls[c].on \in CSessions
         /\ csessions[ccalls[c].on] # None
         /\ csessions[ccalls[c].on] \in CSession
         /\ csessions[ccalls[c].on].stage \in Spoken(ccalls[c].on)
BY ShapeOfCall DEF IndInv, CallOK, SessionOK, CoachingTypeOK

(* Only the status is written.                                             *)
LEMMA StatusWritten ==
  ASSUME IndInv, NEW c \in Calls, ccalls[c] # None, NEW status \in {"active", "completed"},
         csessions' = [csessions EXCEPT ![ccalls[c].on].status = status],
         UNCHANGED <<said, turns, events, redirects, tickets, dropped>>,
         \/ ccalls' = [ccalls EXCEPT ![c] = None]
         \/ /\ ccalls[c].at # "ticket"
            /\ \E at \in Turning : ccalls' = [ccalls EXCEPT ![c] = Turn(c, at)]
  PROVE  IndInv'
<1> PICK s \in CSessions : s = ccalls[c].on
  BY RowOfCall
<1> DEFINE row == [csessions[s] EXCEPT !.status = status]
<1>1. csessions[s] # None /\ csessions[s] \in CSession /\ csessions[s].stage \in Spoken(s)
  BY RowOfCall
<1>2. row \in CSession /\ row.stage = csessions[s].stage
  BY <1>1 DEF CSession
<1>3. csessions' = [csessions EXCEPT ![s] = row]
  OBVIOUS
<1> HIDE DEF row
<1>4. CASE ccalls' = [ccalls EXCEPT ![c] = None]
  <2>1. CallOK(c)'
    BY <1>4, EndedCall DEF IndInv
  <2> QED
    BY <1>1, <1>2, <1>3, <1>4, <2>1, RowWritten
<1>5. ASSUME ccalls[c].at # "ticket", NEW at \in Turning, ccalls' = [ccalls EXCEPT ![c] = Turn(c, at)]
      PROVE  IndInv'
  <2>1. Kept
    BY <1>1, <1>2, <1>3, CoachingAssumption DEF Kept, IndInv, CoachingTypeOK
  <2>2. Turn(c, at) \in CoachingCall /\ CallOK(c)'
    BY <1>5, <2>1, TurnGoesOn
  <2> QED
    BY <1>1, <1>2, <1>3, <1>5, <2>2, RowWritten
<1> QED
  BY <1>4, <1>5

LEMMA StatusSteps ==
  ASSUME IndInv, NEW c \in Calls,
         Reactivate(c) \/ CompleteCrisis(c) \/ CompleteSessionRow(c) \/ StoreSummary(c)
  PROVE  IndInv'
<1>1. {"classify", "number", "recap"} \subseteq Turning
  BY DEF Turning
<1> QED
  BY <1>1, StatusWritten DEF Reactivate, CompleteCrisis, CompleteSessionRow, StoreSummary, Waits

(* Steps that only move a turn on.                                         *)
LEMMA QuietSteps ==
  ASSUME IndInv, NEW c \in Calls, LogFlag(c) \/ ReadTranscript(c)
  PROVE  IndInv'
<1>1. {"countTurns", "summarise"} \subseteq Turning
  BY DEF Turning
<1>2. CASE ReadTranscript(c)
  <2>1. UNCHANGED <<csessions, said, turns, events, redirects, tickets, dropped>> /\ Kept
    BY <1>2 DEF ReadTranscript, Kept
  <2>2. CASE ccalls' = [ccalls EXCEPT ![c] = None]
    BY <2>1, <2>2, EndedCall, QuietStep DEF IndInv, CoachingTypeOK
  <2>3. CASE ccalls' = [ccalls EXCEPT ![c] = Turn(c, "summarise")]
    <3>1. Turn(c, "summarise") \in CoachingCall /\ CallOK(c)'
      BY <1>1, <1>2, <2>1, <2>3, TurnGoesOn DEF ReadTranscript, Waits
    <3> QED
      BY <2>1, <2>3, <3>1, QuietStep DEF IndInv, CoachingTypeOK
  <2> QED
    BY <1>2, <2>2, <2>3 DEF ReadTranscript
<1>3. CASE LogFlag(c)
  <2>1. Kept
    BY <1>3 DEF LogFlag, Kept
  <2>2. Turn(c, "countTurns") \in CoachingCall /\ CallOK(c)'
    BY <1>1, <1>3, <2>1, TurnGoesOn DEF LogFlag, Waits
  <2>3. ccalls[c].on \in CSessions /\ ccalls[c].category \in Crises
    BY <1>3, ShapeOfCall DEF LogFlag, Waits, InCrisis, IndInv
  <2>4. CoachingTypeOK' /\ RedirectIsLogged' /\ IsFiniteSet(tickets')
    BY <1>3, <2>2, <2>3 DEF LogFlag, IndInv, CoachingTypeOK, RedirectIsLogged
  <2> QED
    BY <1>3, <2>1, <2>2, <2>4, StepOfCall DEF LogFlag
<1> QED
  BY <1>2, <1>3
----------------------------------------------------------------------------
(* Handlers that begin.                                                    *)

LEMMA StartSessionStep ==
  ASSUME IndInv, NEW c \in Calls, StartSession(c)
  PROVE  IndInv'
<1> DEFINE row == [status |-> "active", stage |-> 1, goal |-> None]
<1>1. PICK s \in FreeIds(csessions) :
        /\ csessions' = [csessions EXCEPT ![s] = row]
        /\ ccalls' = [ccalls EXCEPT ![c] = [at |-> "greet", on |-> s, stage |-> 1]]
  BY DEF StartSession
<1>2. s \in CSessions /\ csessions[s] = None
  BY DEF FreeIds, RowIds, IndInv, CoachingTypeOK
<1>3. 1 \in Stages
  BY StageAssumption DEF Stages
<1>4. row \in CSession /\ row # None
  BY <1>3, CoachingAssumption DEF CSession
<1>5. [at |-> "greet", on |-> s, stage |-> 1] \in CoachingCall
  BY <1>2, <1>3 DEF CoachingCall
<1>6. csessions'[s] = row /\ \A t \in CSessions : t # s => csessions'[t] = csessions[t]
  BY <1>1, <1>2 DEF IndInv, CoachingTypeOK
<1>7. Kept
  BY <1>2, <1>6 DEF Kept, StartSession
<1>8. CoachingTypeOK' /\ RedirectIsLogged' /\ IsFiniteSet(tickets')
  BY <1>1, <1>4, <1>5 DEF StartSession, IndInv, CoachingTypeOK, RedirectIsLogged
<1>9. SessionOK(s)'
  BY <1>2, <1>4, <1>6 DEF StartSession, IndInv, SessionOK, Spoken
<1>10. CallOK(c)'
  <2>1. ccalls'[c] = [at |-> "greet", on |-> s, stage |-> 1]
    BY <1>1 DEF IndInv, CoachingTypeOK
  <2> QED
    BY <2>1, <1>4, <1>6 DEF CallOK, Answered, Spoken
<1> QED
  BY <1>1, <1>6, <1>7, <1>8, <1>9, <1>10, StepOfCall DEF StartSession

(* A turn or an ending begins at the stage stored.                         *)
LEMMA TurnBegins ==
  ASSUME IndInv, NEW c \in Calls, NEW s \in CSessions, ProcessTurn(c, s) \/ EndSession(c, s)
  PROVE  IndInv'
<1>1. PICK at \in {"classify", "reopen", "close"} :
        ccalls' = [ccalls EXCEPT ![c] = [at |-> at, on |-> s, stage |-> csessions[s].stage]]
  BY DEF ProcessTurn, EndSession
<1>2. csessions[s] # None /\ csessions[s].stage \in Stages /\ csessions[s].stage \in Spoken(s)
  BY DEF ProcessTurn, EndSession, IndInv, CoachingTypeOK, CSession, SessionOK
<1>3. [at |-> at, on |-> s, stage |-> csessions[s].stage] \in CoachingCall
  BY <1>2 DEF CoachingCall
<1>4. ccalls'[c] = [at |-> at, on |-> s, stage |-> csessions[s].stage]
  BY <1>1 DEF IndInv, CoachingTypeOK
<1>5. CallOK(c)'
  BY <1>2, <1>4 DEF ProcessTurn, EndSession, CallOK, Answered, Spoken
<1> QED
  BY <1>1, <1>3, <1>5, QuietStep DEF ProcessTurn, EndSession, IndInv, CoachingTypeOK

----------------------------------------------------------------------------
(* What the coach says.                                                    *)

(* The stages W, the first included, are the first n of the arc.           *)
Reached(W, n) == W \cup {1} = 1..n

(* The stage after one of W, or that one again.                            *)
Follows(W, next) == \E stage \in W \cup {1} : next \in {stage, stage + 1}

(* The arc: from 1..n a message of a stage heard before, or of the next    *)
(* one, makes 1..n or 1..n + 1.                                            *)
LEMMA OneStageMore ==
  ASSUME NEW W, NEW n \in Stages, Reached(W, n), NEW next \in Stages, Follows(W, next)
  PROVE  \E m \in Stages : Reached(W \cup {next}, m) /\ m \in {n, n + 1}
<1>1. PICK stage \in 1..n : next \in {stage, stage + 1}
  BY DEF Reached, Follows
<1>2. n \in Nat /\ next \in Nat /\ StageCount \in Nat
  BY StageAssumption DEF Stages
<1>3. CASE next <= n
  <2>1. next \in 1..n
    BY <1>2, <1>3 DEF Stages
  <2> QED
    BY <2>1 DEF Reached
<1>4. CASE ~(next <= n)
  <2>1. next = n + 1
    BY <1>1, <1>2, <1>4
  <2>2. (1..n) \cup {n + 1} = 1..(n + 1)
    BY <1>2
  <2> QED
    BY <2>1, <2>2 DEF Reached
<1> QED
  BY <1>3, <1>4

(* A message of the coach at a stage that follows the one of the call.     *)
LEMMA MessageSaid ==
  ASSUME IndInv, NEW c \in Calls, NEW k \in CoachingCall \cup {None},
         ccalls' = [ccalls EXCEPT ![c] = k],
         UNCHANGED <<csessions, turns, events, tickets, dropped>>,
         CoachingTypeOK', RedirectIsLogged',
         NEW s \in CSessions, csessions[s] # None,
         NEW next \in Stages, said' = [said EXCEPT ![s] = @ \cup {next}],
         NEW stage \in Spoken(s), next \in {stage, stage + 1},
         Kept => CallOK(c)'
  PROVE  IndInv'
<1>1. said'[s] = said[s] \cup {next} /\ \A t \in CSessions : t # s => said'[t] = said[t]
  BY DEF IndInv, CoachingTypeOK
<1>2. Kept
  BY <1>1 DEF Kept
<1>3. SessionOK(s)'
  <2>1. PICK n \in Stages : Reached(said[s], n)
    BY DEF IndInv, SessionOK, Spoken, Reached
  <2>2. Follows(said[s], next)
    BY DEF Spoken, Follows
  <2>3. PICK m \in Stages : Reached(said[s] \cup {next}, m)
    BY <2>1, <2>2, OneStageMore
  <2>4. csessions'[s].stage \in said'[s] \cup {1}
    BY <1>1 DEF IndInv, SessionOK, Spoken
  <2> QED
    BY <1>1, <2>3, <2>4 DEF SessionOK, Spoken, Reached
<1> QED
  BY <1>1, <1>2, <1>3, StepOfCall DEF IndInv

(* The model may ask for any stage and gets this one or the next.          *)
LEMMA ResolvedStage ==
  ASSUME NEW current \in Stages, NEW requested \in Stages
  PROVE  /\ ResolveStage(current, requested) \in Stages
         /\ ResolveStage(current, requested) \in {current, current + 1}
BY StageAssumption DEF ResolveStage, Stages

LEMMA OpeningMessageStep ==
  ASSUME IndInv, NEW c \in Calls, OpeningMessage(c)
  PROVE  IndInv'
<1> PICK s \in CSessions : s = ccalls[c].on
  BY RowOfCall DEF OpeningMessage, Waits
<1>1. 1 \in Stages /\ 1 \in Spoken(s)
  BY StageAssumption DEF Stages, Spoken
<1>2. PICK next \in Stages :
        /\ next \in {1, 1 + 1}
        /\ said' = [said EXCEPT ![s] = @ \cup {next}]
        /\ ccalls' = [ccalls EXCEPT ![c] =
             IF next = 1 THEN None ELSE [at |-> "openStage", on |-> @.on, stage |-> next]]
  BY <1>1, ResolvedStage DEF OpeningMessage
<1> DEFINE k == IF next = 1 THEN None ELSE [at |-> "openStage", on |-> s, stage |-> next]
<1>3. k \in CoachingCall \cup {None} /\ ccalls' = [ccalls EXCEPT ![c] = k]
  BY <1>2 DEF CoachingCall
<1>4. CallOK(c)'
  <2>1. CASE k = None
    BY <1>3, <2>1, EndedCall DEF IndInv
  <2>2. CASE next # 1
    <3>1. ccalls'[c] = [at |-> "openStage", on |-> s, stage |-> next]
      BY <1>3, <2>2 DEF IndInv, CoachingTypeOK
    <3>2. csessions'[s] # None /\ next \in said'[s]
      BY <1>2, RowOfCall DEF OpeningMessage, Waits, IndInv, CoachingTypeOK
    <3> QED
      BY <3>1, <3>2 DEF CallOK, Answered, Spoken
  <2> QED
    BY <2>1, <2>2
<1>5. CoachingTypeOK' /\ RedirectIsLogged'
  <2>1. ccalls' \in [Calls -> CoachingCall \cup {None}]
    BY <1>3 DEF IndInv, CoachingTypeOK
  <2>2. said' \in [CSessions -> SUBSET Stages]
    BY <1>2 DEF IndInv, CoachingTypeOK
  <2> QED
    BY <2>1, <2>2 DEF OpeningMessage, IndInv, CoachingTypeOK, RedirectIsLogged
<1>6. csessions[s] # None
  BY RowOfCall DEF OpeningMessage, Waits
<1> HIDE DEF k
<1> QED
  BY <1>1, <1>2, <1>3, <1>4, <1>5, <1>6, MessageSaid DEF OpeningMessage

(* A call that goes on without a word or a write to its session's row.     *)
LEMMA CallGoesOn ==
  ASSUME IndInv, UNCHANGED <<csessions, said, events, redirects, tickets>>,
         turns' \in [CSessions -> Nat], dropped' \subseteq CSessions,
         NEW c \in Calls, ccalls[c] # None, ccalls[c].at # "ticket", NEW k \in CoachingCall,
         ccalls' = [ccalls EXCEPT ![c] = k], k.on = ccalls[c].on,
         k.at # "ticket" => k.stage = ccalls[c].stage,
         k.at \notin {"redirect", "stage", "finish"},
         k.at \in Answered => k.next \in {k.stage, k.stage + 1}
  PROVE  IndInv'
<1>1. ccalls'[c] = k
  BY DEF IndInv, CoachingTypeOK
<1>2. csessions'[k.on] # None /\ (k.at # "ticket" => k.stage \in said'[k.on] \cup {1})
  BY DEF IndInv, CallOK, Spoken
<1>3. CallOK(c)'
  BY <1>1, <1>2 DEF CallOK, Spoken
<1> QED
  BY <1>3, QuietStep DEF IndInv, CoachingTypeOK

LEMMA ClassifyStep ==
  ASSUME IndInv, NEW c \in Calls, Classify(c)
  PROVE  IndInv'
<1>1. ccalls[c].on \in CSessions /\ ccalls[c].stage \in Stages
  BY ShapeOfCall DEF Classify, Waits, Turning, IndInv
<1> DEFINE Quiet == /\ UNCHANGED <<csessions, said, events, redirects, tickets>>
                    /\ turns' \in [CSessions -> Nat] /\ dropped' \subseteq CSessions
                    /\ ccalls[c] # None /\ ccalls[c].at # "ticket"
<1>2. Quiet
  BY DEF Classify, Waits, IndInv, CoachingTypeOK
<1>3. CASE ccalls' = [ccalls EXCEPT ![c] = Turn(c, "countTurns")]
  <2> DEFINE k == Turn(c, "countTurns")
  <2>1. k \in CoachingCall
    BY <1>1 DEF Turn, CoachingCall
  <2>2. k.on = ccalls[c].on /\ k.stage = ccalls[c].stage /\ k.at = "countTurns"
    BY DEF Turn
  <2> HIDE DEF k
  <2> QED
    BY <1>3, <1>2, <2>1, <2>2, CallGoesOn DEF Answered, k
<1>4. ASSUME NEW at \in {"crisisTurn", "logFlag"}, NEW category \in Crises,
             ccalls' = [ccalls EXCEPT ![c] = [at |-> at, on |-> @.on, stage |-> @.stage,
                                              category |-> category]]
      PROVE  IndInv'
  <2> DEFINE k == [at |-> at, on |-> ccalls[c].on, stage |-> ccalls[c].stage,
                   category |-> category]
  <2>1. k \in CoachingCall
    BY <1>1 DEF CoachingCall
  <2>2. k.on = ccalls[c].on /\ k.stage = ccalls[c].stage /\ k.at = at
    OBVIOUS
  <2>3. ccalls' = [ccalls EXCEPT ![c] = k]
    BY <1>4
  <2> HIDE DEF k
  <2> QED
    BY <1>2, <2>1, <2>2, <2>3, CallGoesOn DEF Answered
<1> QED
  BY <1>3, <1>4 DEF Classify

(* From the client's message, counted, to the message of the coach.        *)
LEMMA CountTurnsStep ==
  ASSUME IndInv, NEW c \in Calls, CountClientTurns(c) \/ NumberTicket(c)
  PROVE  IndInv'
<1>1. ccalls[c].on \in CSessions /\ ccalls[c].stage \in Stages
  BY ShapeOfCall DEF CountClientTurns, NumberTicket, Waits, Turning, IndInv
<1>2. CASE CountClientTurns(c)
  <2> DEFINE k == [at |-> "clientTurn", on |-> ccalls[c].on, stage |-> ccalls[c].stage,
                   first |-> turns[ccalls[c].on] = 0]
  <2>1. k \in CoachingCall
    BY <1>1 DEF CoachingCall
  <2>2. k.on = ccalls[c].on /\ k.stage = ccalls[c].stage /\ k.at = "clientTurn"
    OBVIOUS
  <2>3. ccalls' = [ccalls EXCEPT ![c] = k]
    BY <1>2 DEF CountClientTurns
  <2> HIDE DEF k
  <2> QED
    BY <1>2, <2>1, <2>2, <2>3, CallGoesOn
       DEF CountClientTurns, Waits, Answered, IndInv, CoachingTypeOK
<1>3. CASE NumberTicket(c)
  <2> DEFINE k == [at |-> "ticket", on |-> ccalls[c].on, number |-> Cardinality(tickets) + 1]
  <2>1. Cardinality(tickets) \in Nat
    BY FS_CardinalityType DEF IndInv
  <2>2. k \in CoachingCall
    BY <1>1, <2>1 DEF CoachingCall
  <2>3. k.on = ccalls[c].on /\ k.at = "ticket"
    OBVIOUS
  <2>4. ccalls' = [ccalls EXCEPT ![c] = k]
    BY <1>3 DEF NumberTicket
  <2> HIDE DEF k
  <2> QED
    BY <1>3, <2>2, <2>3, <2>4, CallGoesOn
       DEF NumberTicket, Waits, Answered, IndInv, CoachingTypeOK
<1> QED
  BY <1>2, <1>3

LEMMA ClientTurnStep ==
  ASSUME IndInv, NEW c \in Calls, ClientTurn(c) \/ CrisisTurn(c)
  PROVE  IndInv'
<1> DEFINE k == [ccalls[c] EXCEPT !.at = IF ClientTurn(c) THEN "model" ELSE "logEvent"]
<1>1. /\ ccalls[c] # None /\ ccalls[c].at \in {"clientTurn", "crisisTurn"}
      /\ ccalls[c].on \in CSessions
  BY ShapeOfCall DEF ClientTurn, CrisisTurn, Waits, IndInv
<1>2. k \in CoachingCall
  <2>1. CASE ClientTurn(c)
    BY <2>1, ShapeOfCall DEF ClientTurn, Waits, IndInv, CoachingCall
  <2>2. CASE ~ClientTurn(c)
    <3>1. ccalls[c] \in [at : InCrisis, on : CSessions, stage : Stages, category : Crises]
      BY <2>2, ShapeOfCall DEF CrisisTurn, Waits, IndInv, InCrisis
    <3> QED
      BY <2>2, <3>1 DEF CoachingCall, InCrisis
  <2> QED
    BY <2>1, <2>2
<1>3. /\ k.on = ccalls[c].on /\ k.stage = ccalls[c].stage
      /\ k.at \in {"model", "logEvent"}
  <2>1. ccalls[c] \in [at : {"clientTurn", "model"}, on : CSessions, stage : Stages, first : BOOLEAN]
          \/ ccalls[c] \in [at : InCrisis, on : CSessions, stage : Stages, category : Crises]
    BY <1>1, ShapeOfCall DEF IndInv, InCrisis
  <2> QED
    BY <2>1
<1>4. ccalls' = [ccalls EXCEPT ![c] = k]
  BY DEF ClientTurn, CrisisTurn, Waits
<1> HIDE DEF k
<1>5. turns' \in [CSessions -> Nat]
  BY <1>1 DEF ClientTurn, CrisisTurn, IndInv, CoachingTypeOK
<1>6. UNCHANGED <<csessions, said, events, redirects, tickets>> /\ dropped' \subseteq CSessions
  BY DEF ClientTurn, CrisisTurn, IndInv, CoachingTypeOK
<1> QED
  BY <1>1, <1>2, <1>3, <1>4, <1>5, <1>6, CallGoesOn DEF Answered

LEMMA CoachTurnStep ==
  ASSUME IndInv, NEW c \in Calls, CoachTurn(c)
  PROVE  IndInv'
<1>1. ccalls[c].on \in CSessions /\ ccalls[c].stage \in Stages
  BY ShapeOfCall DEF CoachTurn, Waits, IndInv
<1>2. PICK at \in {"coachTurn", "goal"}, next \in Stages, goal \in Goals \cup {None},
           done \in BOOLEAN :
        /\ next \in {ccalls[c].stage, ccalls[c].stage + 1}
        /\ ccalls' = [ccalls EXCEPT ![c] =
             [at |-> at, on |-> ccalls[c].on, stage |-> ccalls[c].stage, next |-> next,
              goal |-> goal, done |-> done]]
  BY <1>1, ResolvedStage, Zenon DEF CoachTurn, Goals
<1> DEFINE k == [at |-> at, on |-> ccalls[c].on, stage |-> ccalls[c].stage, next |-> next,
                 goal |-> goal, done |-> done]
<1>3. k \in CoachingCall
  BY <1>1 DEF CoachingCall
<1>4. /\ k.on = ccalls[c].on /\ k.stage = ccalls[c].stage /\ k.at = at
      /\ k.next \in {k.stage, k.stage + 1}
  BY <1>2
<1>5. ccalls' = [ccalls EXCEPT ![c] = k]
  BY <1>2
<1> HIDE DEF k
<1> QED
  BY <1>3, <1>4, <1>5, CallGoesOn DEF CoachTurn, Waits, Answered, IndInv, CoachingTypeOK

----------------------------------------------------------------------------
(* What a turn writes to its session.                                      *)

(* A row of which only stage or goal is written.                           *)
LEMMA StageWritten ==
  ASSUME IndInv, NEW c \in Calls, ccalls[c] # None,
         NEW stage \in Stages, stage \in Spoken(ccalls[c].on),
         csessions' = [csessions EXCEPT ![ccalls[c].on].stage = stage],
         UNCHANGED <<said, turns, events, redirects, tickets, dropped>>,
         NEW k \in CoachingCall \cup {None}, ccalls' = [ccalls EXCEPT ![c] = k],
         Kept => CallOK(c)'
  PROVE  IndInv'
<1> PICK s \in CSessions : s = ccalls[c].on
  BY RowOfCall
<1> DEFINE row == [csessions[s] EXCEPT !.stage = stage]
<1>1. csessions[s] # None /\ csessions[s] \in CSession
  BY RowOfCall
<1>2. row \in CSession /\ row.stage = stage
  BY <1>1 DEF CSession
<1>3. csessions' = [csessions EXCEPT ![s] = row]
  OBVIOUS
<1> HIDE DEF row
<1> QED
  BY <1>1, <1>2, <1>3, RowWritten

LEMMA WriteOpeningStageStep ==
  ASSUME IndInv, NEW c \in Calls, WriteOpeningStage(c)
  PROVE  IndInv'
<1>1. PICK stage \in Stages : stage = ccalls[c].stage
  BY ShapeOfCall DEF WriteOpeningStage, Waits, IndInv
<1>2. stage \in Spoken(ccalls[c].on)
  BY <1>1 DEF WriteOpeningStage, Waits, IndInv, CallOK
<1>3. CallOK(c)'
  BY EndedCall DEF WriteOpeningStage, IndInv
<1> QED
  BY <1>1, <1>2, <1>3, StageWritten DEF WriteOpeningStage, Waits

(* What is left of an answered turn.                                       *)
LEMMA AnsweredTurn ==
  ASSUME IndInv, NEW c \in Calls, ccalls[c] # None, ccalls[c].at \in Answered,
         NEW at \in {"coachTurn", "stage", "finish"}
  PROVE  /\ [ccalls[c] EXCEPT !.at = at] \in CoachingCall
         /\ [ccalls[c] EXCEPT !.at = at].on = ccalls[c].on
         /\ [ccalls[c] EXCEPT !.at = at].stage = ccalls[c].stage
         /\ [ccalls[c] EXCEPT !.at = at].next = ccalls[c].next
         /\ [ccalls[c] EXCEPT !.at = at].at = at
         /\ ccalls[c].next \in Stages
<1>1. ccalls[c] \in [at : Answered, on : CSessions, stage : Stages, next : Stages,
                     goal : Goals \cup {None}, done : BOOLEAN]
  BY ShapeOfCall DEF IndInv
<1> QED
  BY <1>1 DEF Answered, CoachingCall

LEMMA AfterReplyType ==
  ASSUME IndInv, NEW c \in Calls, ccalls[c] # None, ccalls[c].at \in Answered
  PROVE  {None} \cup {[ccalls[c] EXCEPT !.at = at] : at \in {"stage", "finish"}}
           \subseteq CoachingCall \cup {None}
<1> SUFFICES ASSUME NEW at \in {"stage", "finish"}
             PROVE  [ccalls[c] EXCEPT !.at = at] \in CoachingCall
  OBVIOUS
<1> QED
  BY AnsweredTurn

(* A turn whose message is out has the message's stage among those spoken. *)
LEMMA AfterReplyOK ==
  ASSUME IndInv, Kept, NEW c \in Calls, ccalls[c] # None, ccalls[c].at \in Answered,
         ccalls[c].next \in said'[ccalls[c].on] \cup {1},
         NEW k, ccalls' = [ccalls EXCEPT ![c] = k],
         k \in {None} \cup {[ccalls[c] EXCEPT !.at = at] : at \in {"stage", "finish"}}
  PROVE  k \in CoachingCall \cup {None} /\ CallOK(c)'
<1>1. CASE k = None
  BY <1>1, EndedCall DEF IndInv
<1>2. ASSUME NEW at \in {"stage", "finish"}, k = [ccalls[c] EXCEPT !.at = at]
      PROVE  k \in CoachingCall \cup {None} /\ CallOK(c)'
  <2>1. /\ k \in CoachingCall /\ k.on = ccalls[c].on /\ k.stage = ccalls[c].stage
        /\ k.next = ccalls[c].next /\ k.at = at
    BY ZenonT(60), <1>2, AnsweredTurn
  <2>2. ccalls'[c] = k
    BY DEF IndInv, CoachingTypeOK
  <2>3. /\ csessions[k.on] # None /\ k.stage \in Spoken(k.on)
        /\ k.next \in {k.stage, k.stage + 1} /\ k.on \in CSessions
    BY <2>1, RowOfCall DEF IndInv, CallOK, Answered
  <2>4. csessions'[k.on] # None /\ k.stage \in said'[k.on] \cup {1}
    BY <2>3 DEF Kept, Spoken
  <2> QED
    BY <2>1, <2>2, <2>3, <2>4 DEF CallOK, Spoken
<1> QED
  BY <1>1, <1>2

LEMMA UpdateSessionStageStep ==
  ASSUME IndInv, NEW c \in Calls, UpdateSessionStage(c)
  PROVE  IndInv'
<1>1. ccalls[c] # None /\ ccalls[c].at \in Answered
  BY DEF UpdateSessionStage, Waits, Answered
<1>2. PICK next \in Stages : next = ccalls[c].next
  BY <1>1, AnsweredTurn DEF UpdateSessionStage
<1>3. next \in Spoken(ccalls[c].on)
  BY <1>2 DEF UpdateSessionStage, Waits, IndInv, CallOK
<1> DEFINE k == AfterReply(ccalls[c])
<1>4. k \in {None} \cup {[ccalls[c] EXCEPT !.at = at] : at \in {"stage", "finish"}}
  BY DEF AfterReply
<1>5. ccalls' = [ccalls EXCEPT ![c] = k]
  BY DEF UpdateSessionStage
<1>6. k \in CoachingCall \cup {None}
  BY <1>1, <1>4, AfterReplyType
<1> HIDE DEF k
<1>7. ccalls[c].next \in said'[ccalls[c].on] \cup {1}
  BY <1>2, <1>3 DEF UpdateSessionStage, Spoken
<1>8. Kept => CallOK(c)'
  BY <1>1, <1>4, <1>5, <1>7, AfterReplyOK
<1>9. csessions' = [csessions EXCEPT ![ccalls[c].on].stage = next]
  BY <1>2 DEF UpdateSessionStage
<1>10. UNCHANGED <<said, turns, events, redirects, tickets, dropped>>
  BY DEF UpdateSessionStage
<1> QED
  BY <1>1, <1>3, <1>5, <1>6, <1>8, <1>9, <1>10, StageWritten

LEMMA SetSessionGoalStep ==
  ASSUME IndInv, NEW c \in Calls, SetSessionGoal(c)
  PROVE  IndInv'
<1>1. ccalls[c] # None /\ ccalls[c].at \in Answered /\ ccalls[c].at = "goal"
  BY DEF SetSessionGoal, Waits, Answered
<1> PICK s \in CSessions : s = ccalls[c].on
  BY <1>1, RowOfCall
<1> DEFINE row == [csessions[s] EXCEPT !.goal = ccalls[c].goal]
           k   == [ccalls[c] EXCEPT !.at = "coachTurn"]
<1>2. csessions[s] # None /\ csessions[s] \in CSession /\ csessions[s].stage \in Spoken(s)
  BY <1>1, RowOfCall
<1>3. ccalls[c].goal \in Goals \cup {None}
  BY <1>1, ShapeOfCall DEF IndInv
<1>4. row \in CSession /\ row.stage = csessions[s].stage
  BY <1>2, <1>3 DEF CSession
<1>5. csessions' = [csessions EXCEPT ![s] = row] /\ ccalls' = [ccalls EXCEPT ![c] = k]
  BY DEF SetSessionGoal
<1>6. /\ k \in CoachingCall /\ k.on = s /\ k.stage = ccalls[c].stage
      /\ k.next = ccalls[c].next /\ k.at = "coachTurn"
  BY <1>1, AnsweredTurn
<1> HIDE DEF row, k
<1>7. Kept => CallOK(c)'
  <2>1. ccalls'[c] = k
    BY <1>5 DEF IndInv, CoachingTypeOK
  <2>2. k.stage \in said'[s] \cup {1} /\ k.next \in {k.stage, k.stage + 1}
    BY <1>1, <1>6 DEF SetSessionGoal, IndInv, CallOK, Spoken, Answered
  <2> QED
    BY <1>2, <1>6, <2>1, <2>2 DEF CallOK, Kept, Spoken
<1>8. UNCHANGED <<said, turns, events, redirects, tickets, dropped>>
  BY DEF SetSessionGoal
<1>9. PICK r \in CSession : r = row
  BY <1>4
<1> QED
  BY <1>2, <1>4, <1>5, <1>6, <1>7, <1>8, <1>9, RowWritten

LEMMA CoachMessageStep ==
  ASSUME IndInv, NEW c \in Calls, CoachMessage(c)
  PROVE  IndInv'
<1>1. ccalls[c] # None /\ ccalls[c].at \in Answered /\ ccalls[c].at = "coachTurn"
  BY DEF CoachMessage, Waits, Answered
<1> PICK s \in CSessions : s = ccalls[c].on
  BY <1>1, RowOfCall
<1>2. PICK next \in Stages, stage \in Spoken(s) :
        next = ccalls[c].next /\ stage = ccalls[c].stage
  BY <1>1, AnsweredTurn DEF IndInv, CallOK
<1>3. next \in {stage, stage + 1}
  BY <1>1, <1>2 DEF IndInv, CallOK
<1> DEFINE k == IF next # stage THEN [ccalls[c] EXCEPT !.at = "stage"]
                ELSE AfterReply(ccalls[c])
<1>4. k \in {None} \cup {[ccalls[c] EXCEPT !.at = at] : at \in {"stage", "finish"}}
  BY DEF AfterReply
<1>5. ccalls' = [ccalls EXCEPT ![c] = k] /\ said' = [said EXCEPT ![s] = @ \cup {next}]
  BY <1>2 DEF CoachMessage
<1>6. k \in CoachingCall \cup {None}
  BY <1>1, <1>4, AfterReplyType
<1>7. CoachingTypeOK' /\ RedirectIsLogged'
  BY <1>5, <1>6 DEF CoachMessage, IndInv, CoachingTypeOK, RedirectIsLogged
<1> HIDE DEF k
<1>8. ccalls[c].next \in said'[ccalls[c].on] \cup {1}
  BY <1>2, <1>5 DEF IndInv, CoachingTypeOK
<1>9. Kept => CallOK(c)'
  BY <1>1, <1>4, <1>5, <1>8, AfterReplyOK
<1>10. csessions[s] # None
  BY <1>1, <1>2, RowOfCall
<1>11. UNCHANGED <<csessions, turns, events, tickets, dropped>>
  BY DEF CoachMessage
<1> QED
  BY <1>3, <1>5, <1>6, <1>7, <1>9, <1>10, <1>11, MessageSaid

----------------------------------------------------------------------------
(* The safety route.                                                       *)

LEMMA CrisisCall ==
  ASSUME IndInv, NEW c \in Calls, ccalls[c] # None, ccalls[c].at \in InCrisis,
         NEW at \in InCrisis
  PROVE  /\ [ccalls[c] EXCEPT !.at = at] \in CoachingCall
         /\ [ccalls[c] EXCEPT !.at = at].on = ccalls[c].on
         /\ [ccalls[c] EXCEPT !.at = at].stage = ccalls[c].stage
         /\ [ccalls[c] EXCEPT !.at = at].category = ccalls[c].category
         /\ [ccalls[c] EXCEPT !.at = at].at = at
         /\ ccalls[c].on \in CSessions
         /\ ccalls[c].stage \in Stages
         /\ ccalls[c].category \in Crises
<1>1. ccalls[c] \in [at : InCrisis, on : CSessions, stage : Stages, category : Crises]
  BY ShapeOfCall DEF IndInv
<1> QED
  BY <1>1 DEF InCrisis, CoachingCall

LEMMA LogSafetyEventStep ==
  ASSUME IndInv, NEW c \in Calls, LogSafetyEvent(c)
  PROVE  IndInv'
<1>1. ccalls[c] # None /\ ccalls[c].at \in InCrisis /\ "redirect" \in InCrisis
  BY DEF LogSafetyEvent, Waits, InCrisis
<1> DEFINE k == [ccalls[c] EXCEPT !.at = "redirect"]
<1>2. /\ k \in CoachingCall /\ k.on = ccalls[c].on /\ k.stage = ccalls[c].stage
      /\ k.category = ccalls[c].category /\ k.at = "redirect"
      /\ ccalls[c].on \in CSessions /\ ccalls[c].category \in Crises
  BY <1>1, CrisisCall
<1>3. ccalls' = [ccalls EXCEPT ![c] = k]
  BY DEF LogSafetyEvent
<1> HIDE DEF k
<1>4. Kept
  BY DEF LogSafetyEvent, Kept
<1>5. CoachingTypeOK' /\ RedirectIsLogged' /\ IsFiniteSet(tickets')
  BY <1>2, <1>3 DEF LogSafetyEvent, IndInv, CoachingTypeOK, RedirectIsLogged
<1>6. CallOK(c)'
  <2>1. ccalls'[c] = k
    BY <1>3 DEF IndInv, CoachingTypeOK
  <2>2. csessions'[k.on] # None /\ k.stage \in said'[k.on] \cup {1}
    BY <1>1, <1>2 DEF LogSafetyEvent, IndInv, CallOK, Spoken, Waits
  <2>3. <<k.on, k.category, "redirect">> \in events'
    BY <1>2 DEF LogSafetyEvent
  <2> QED
    BY <1>2, <2>1, <2>2, <2>3 DEF CallOK, Answered, Spoken
<1> QED
  BY <1>3, <1>4, <1>5, <1>6, StepOfCall DEF LogSafetyEvent

LEMMA RedirectStep ==
  ASSUME IndInv, NEW c \in Calls, Redirect(c)
  PROVE  IndInv'
<1>1. /\ ccalls[c] # None /\ ccalls[c].at \in InCrisis /\ "crisisEnd" \in InCrisis
      /\ ccalls[c].at = "redirect"
  BY DEF Redirect, Waits, InCrisis
<1> PICK s \in CSessions : s = ccalls[c].on
  BY <1>1, RowOfCall
<1>2. PICK stage \in Spoken(s) : stage = ccalls[c].stage
  BY <1>1 DEF IndInv, CallOK
<1> DEFINE k == [ccalls[c] EXCEPT !.at = "crisisEnd"]
<1>3. /\ k \in CoachingCall /\ k.on = s /\ k.stage = stage /\ k.at = "crisisEnd"
      /\ stage \in Stages /\ ccalls[c].category \in Crises
  BY <1>1, <1>2, CrisisCall
<1>4. /\ ccalls' = [ccalls EXCEPT ![c] = k]
      /\ said' = [said EXCEPT ![s] = @ \cup {stage}]
      /\ redirects' = redirects \cup {<<s, ccalls[c].category>>}
      /\ UNCHANGED <<csessions, turns, events, tickets, dropped>>
  BY <1>2 DEF Redirect
<1> HIDE DEF k
<1>5. CoachingTypeOK'
  BY <1>3, <1>4 DEF IndInv, CoachingTypeOK
<1>6. RedirectIsLogged'
  <2>1. <<s, ccalls[c].category, "redirect">> \in events
    BY <1>1 DEF IndInv, CallOK
  <2>2. \A r \in redirects : <<r[1], r[2], "redirect">> \in events'
    BY <1>4 DEF IndInv, RedirectIsLogged
  <2>3. \A r \in redirects' : r \in redirects \/ r = <<s, ccalls[c].category>>
    BY <1>4
  <2>4. ASSUME NEW r, r = <<s, ccalls[c].category>>
        PROVE  <<r[1], r[2], "redirect">> \in events'
    BY <1>4, <2>1, <2>4
  <2> QED
    BY <2>2, <2>3, <2>4 DEF RedirectIsLogged
<1>7. csessions[s] # None
  BY <1>1, RowOfCall
<1>8. CallOK(c)'
  <2>1. ccalls'[c] = k
    BY <1>4 DEF IndInv, CoachingTypeOK
  <2>2. csessions'[s] # None /\ stage \in said'[s] \cup {1}
    BY <1>3, <1>4, <1>7 DEF IndInv, CoachingTypeOK
  <2> QED
    BY <1>3, <2>1, <2>2 DEF CallOK, Answered, Spoken
<1> QED
  BY <1>3, <1>4, <1>5, <1>6, <1>7, <1>8, MessageSaid

LEMMA CreateSupportTicketStep ==
  ASSUME IndInv, NEW c \in Calls, CreateSupportTicket(c)
  PROVE  IndInv'
<1>1. ccalls[c].on \in CSessions /\ ccalls[c].number \in Nat
  BY ShapeOfCall DEF CreateSupportTicket, Waits, IndInv
<1> DEFINE ticket == <<ccalls[c].on, ccalls[c].number>>
<1>2. ticket \in CSessions \X Nat /\ tickets' = tickets \cup {ticket}
  BY <1>1 DEF CreateSupportTicket
<1> HIDE DEF ticket
<1>4. tickets' \subseteq CSessions \X Nat /\ IsFiniteSet(tickets')
  BY <1>2, FS_AddElement DEF IndInv, CoachingTypeOK
<1>3. CallOK(c)'
  BY EndedCall DEF CreateSupportTicket, IndInv
<1> QED
  BY <1>3, <1>4, QuietStep DEF CreateSupportTicket, IndInv, CoachingTypeOK

LEMMA CoachingAbortStep ==
  ASSUME IndInv, NEW c \in Calls, CoachingAbort(c)
  PROVE  IndInv'
<1>1. ccalls[c].on \in CSessions
  BY ShapeOfCall DEF CoachingAbort, IndInv
<1>2. CallOK(c)'
  BY EndedCall DEF CoachingAbort, IndInv
<1> QED
  BY <1>1, <1>2, QuietStep DEF CoachingAbort, IndInv, CoachingTypeOK

----------------------------------------------------------------------------

LEMMA InitOK == CoachingInit => IndInv
<1> SUFFICES ASSUME CoachingInit PROVE IndInv
  OBVIOUS
<1>1. IsFiniteSet(tickets)
  BY FS_EmptySet DEF CoachingInit
<1>2. \A s \in CSessions : SessionOK(s)
  <2>1. 1 \in Stages /\ {1} = 1..1
    BY StageAssumption DEF Stages
  <2> QED
    BY <2>1 DEF CoachingInit, SessionOK, Spoken
<1> QED
  BY <1>1, <1>2 DEF CoachingInit, IndInv, CoachingTypeOK, RedirectIsLogged, CallOK

LEMMA StepOK == IndInv /\ [CoachingNext]_coachingVars => IndInv'
<1> SUFFICES ASSUME IndInv, [CoachingNext]_coachingVars PROVE IndInv'
  OBVIOUS
<1>1. CASE UNCHANGED coachingVars
  BY <1>1 DEF coachingVars, IndInv, CoachingTypeOK, SessionOK, Spoken, RedirectIsLogged, CallOK
<1>2. ASSUME NEW c \in Calls, CoachingStep(c) PROVE IndInv'
  BY <1>2, OpeningMessageStep, WriteOpeningStageStep, StatusSteps, ClassifyStep, QuietSteps,
     ClientTurnStep, LogSafetyEventStep, RedirectStep, CountTurnsStep, CreateSupportTicketStep,
     CoachTurnStep, SetSessionGoalStep, CoachMessageStep, UpdateSessionStageStep
     DEF CoachingStep
<1>3. ASSUME NEW c \in Calls, StartSession(c) \/ CoachingAbort(c) PROVE IndInv'
  BY <1>3, StartSessionStep, CoachingAbortStep
<1>4. ASSUME NEW c \in Calls, NEW s \in CSessions, ProcessTurn(c, s) \/ EndSession(c, s)
      PROVE  IndInv'
  BY <1>4, TurnBegins
<1> QED
  BY <1>1, <1>2, <1>3, <1>4 DEF CoachingNext

(* The invariant the theorems below rest on: of processTurn and the other  *)
(* handlers, whatever their overlap.                                       *)
THEOREM CoachingInvariant == CoachingSpec => []IndInv
BY InitOK, StepOK, PTL DEF CoachingSpec

(* Sessions, messages, tickets and the turns in flight have their types.   *)
THEOREM CoachingTypeCorrect == CoachingSpec => []CoachingTypeOK
<1>1. IndInv => CoachingTypeOK
  BY DEF IndInv
<1> QED
  BY <1>1, CoachingInvariant, PTL

(* The stage stored of a session is one the coach has spoken from: the     *)
(* message goes out before updateSessionStage, and no turn takes it back.  *)
THEOREM StageNeverAheadOfTalk == CoachingSpec => []StoredStageWasSpoken
<1>1. IndInv => StoredStageWasSpoken
  BY DEF IndInv, CoachingTypeOK, StoredStageWasSpoken, SessionOK, Spoken, RowIds
<1> QED
  BY <1>1, CoachingInvariant, PTL

(* A redirect to crisis support has its safety event before it.            *)
THEOREM RedirectsLeaveTrace == CoachingSpec => []RedirectIsLogged
<1>1. IndInv => RedirectIsLogged
  BY DEF IndInv
<1> QED
  BY <1>1, CoachingInvariant, PTL

----------------------------------------------------------------------------
(* A redirect leads to a ticket.                                           *)

Caring(c, s) ==
  ccalls[c] # None /\ ccalls[c].on = s /\ ccalls[c].at \in {"crisisEnd", "number", "ticket"}

CaredFor(s) ==
  \/ \E t \in tickets : t[1] = s
  \/ \E c \in Calls : Caring(c, s)
  \/ s \in dropped

(* The steps of a turn up to the redirect, from there to the ticket, and   *)
(* those of the coach's reply.                                             *)
EarlyStep(c) ==
  \/ OpeningMessage(c) \/ WriteOpeningStage(c) \/ Reactivate(c) \/ Classify(c)
  \/ LogFlag(c) \/ CrisisTurn(c) \/ LogSafetyEvent(c) \/ Redirect(c)

CareStep(c) == CompleteCrisis(c) \/ NumberTicket(c) \/ CreateSupportTicket(c)

ReplyStep(c) ==
  \/ CountClientTurns(c) \/ ClientTurn(c) \/ CoachTurn(c) \/ SetSessionGoal(c)
  \/ CoachMessage(c) \/ UpdateSessionStage(c) \/ CompleteSessionRow(c)
  \/ ReadTranscript(c) \/ StoreSummary(c)

(* A call that cares for a crisis goes on to its ticket, or fails.         *)
LEMMA CareIsKept ==
  ASSUME IndInv, CoachingNext, NEW s \in CSessions, CaredFor(s)
  PROVE  CaredFor(s)'
<1>1. tickets \subseteq tickets' /\ dropped \subseteq dropped'
  <2>1. PICK d \in Calls : \/ StartSession(d) \/ CoachingAbort(d)
                           \/ \E t \in CSessions : ProcessTurn(d, t) \/ EndSession(d, t)
                           \/ CoachingStep(d)
    BY DEF CoachingNext
  <2>2. CASE \/ StartSession(d) \/ CoachingAbort(d)
             \/ \E t \in CSessions : ProcessTurn(d, t) \/ EndSession(d, t)
    BY <2>2 DEF StartSession, CoachingAbort, ProcessTurn, EndSession
  <2>3. CASE CoachingStep(d)
    <3>1. CASE EarlyStep(d)
      BY <3>1 DEF EarlyStep, OpeningMessage, WriteOpeningStage, Reactivate, Classify, LogFlag,
         CrisisTurn, LogSafetyEvent, Redirect
    <3>2. CASE CareStep(d)
      BY <3>2 DEF CareStep, CompleteCrisis, NumberTicket, CreateSupportTicket
    <3>3. CASE ReplyStep(d)
      BY <3>3 DEF ReplyStep, CountClientTurns, ClientTurn, CoachTurn, SetSessionGoal,
         CoachMessage, UpdateSessionStage, CompleteSessionRow, ReadTranscript, StoreSummary
    <3> QED
      BY <2>3, <3>1, <3>2, <3>3 DEF CoachingStep, EarlyStep, CareStep, ReplyStep
  <2> QED
    BY <2>1, <2>2, <2>3
<1>2. ASSUME NEW c \in Calls, Caring(c, s), ccalls'[c] = ccalls[c] PROVE CaredFor(s)'
  BY <1>2 DEF Caring, CaredFor
<1>3. ASSUME NEW c \in Calls, Caring(c, s), ccalls'[c] # ccalls[c] PROVE CaredFor(s)'
  <2>1. \/ CompleteCrisis(c) \/ NumberTicket(c) \/ CreateSupportTicket(c) \/ CoachingAbort(c)
    <3>1. PICK d \in Calls : \/ StartSession(d) \/ CoachingStep(d) \/ CoachingAbort(d)
                             \/ \E t \in CSessions : ProcessTurn(d, t) \/ EndSession(d, t)
      BY DEF CoachingNext
    <3>2. \A e \in Calls : e # d => ccalls'[e] = ccalls[e]
      <4>1. ccalls \in [Calls -> CoachingCall \cup {None}]
        BY DEF IndInv, CoachingTypeOK
      <4>2. CASE \/ StartSession(d) \/ CoachingAbort(d)
                 \/ \E t \in CSessions : ProcessTurn(d, t) \/ EndSession(d, t)
        BY <4>1, <4>2 DEF StartSession, CoachingAbort, ProcessTurn, EndSession
      <4>3. CASE EarlyStep(d)
        BY <4>1, <4>3 DEF EarlyStep, OpeningMessage, WriteOpeningStage, Reactivate, Classify,
           LogFlag, CrisisTurn, LogSafetyEvent, Redirect
      <4>4. CASE CareStep(d)
        BY <4>1, <4>4 DEF CareStep, CompleteCrisis, NumberTicket, CreateSupportTicket
      <4>5. CASE ReplyStep(d)
        BY <4>1, <4>5 DEF ReplyStep, CountClientTurns, ClientTurn, CoachTurn, SetSessionGoal,
           CoachMessage, UpdateSessionStage, CompleteSessionRow, ReadTranscript, StoreSummary
      <4> QED
        BY <3>1, <4>2, <4>3, <4>4, <4>5 DEF CoachingStep, EarlyStep, CareStep, ReplyStep
    <3>3. d = c
      BY <1>3, <3>2
    <3>4. ~StartSession(c) /\ \A t \in CSessions : ~ProcessTurn(c, t) /\ ~EndSession(c, t)
      BY <1>3 DEF Caring, StartSession, ProcessTurn, EndSession
    <3>5. ~EarlyStep(c)
      BY <1>3 DEF EarlyStep, Caring, Waits, OpeningMessage, WriteOpeningStage, Reactivate,
         Classify, LogFlag, CrisisTurn, LogSafetyEvent, Redirect
    <3>6. ~ReplyStep(c)
      BY <1>3 DEF ReplyStep, Caring, Waits, CountClientTurns, ClientTurn, CoachTurn,
         SetSessionGoal, CoachMessage, UpdateSessionStage, CompleteSessionRow, ReadTranscript,
         StoreSummary
    <3> QED
      BY <3>1, <3>3, <3>4, <3>5, <3>6 DEF CoachingStep, EarlyStep, ReplyStep
  <2>2. CASE CompleteCrisis(c) \/ NumberTicket(c)
    <3>1. ccalls'[c] # None /\ ccalls'[c].on = s /\ ccalls'[c].at \in {"number", "ticket"}
      <4>1. CASE CompleteCrisis(c)
        <5>1. Turn(c, "number") \in CoachingCall
          <6>1. ccalls[c] # None /\ ccalls[c].at \in InCrisis
            BY <4>1 DEF CompleteCrisis, Waits, InCrisis
          <6>2. ccalls[c].on \in CSessions /\ ccalls[c].stage \in Stages
            BY <6>1, CrisisCall
          <6> QED
            BY <6>2 DEF Turn, CoachingCall
        <5> QED
          BY <1>3, <4>1, <5>1, CoachingAssumption
             DEF CompleteCrisis, Caring, Turn, IndInv, CoachingTypeOK
      <4>2. CASE NumberTicket(c)
        <5> DEFINE k == [at |-> "ticket", on |-> ccalls[c].on,
                         number |-> Cardinality(tickets) + 1]
        <5>1. k \in CoachingCall
          BY <1>3, <4>2, RowOfCall, FS_CardinalityType
             DEF NumberTicket, Waits, CoachingCall, IndInv
        <5>2. ccalls'[c] = k /\ k.on = s /\ k.at = "ticket"
          BY <1>3, <4>2 DEF NumberTicket, Caring, IndInv, CoachingTypeOK
        <5> HIDE DEF k
        <5> QED
          BY <5>1, <5>2, CoachingAssumption
      <4> QED
        BY <2>2, <4>1, <4>2
    <3> QED
      BY <3>1 DEF CaredFor, Caring
  <2>3. CASE CreateSupportTicket(c)
    <3>1. <<s, ccalls[c].number>> \in tickets'
      BY <1>3, <2>3 DEF CreateSupportTicket, Caring
    <3> QED
      BY <3>1 DEF CaredFor
  <2>4. CASE CoachingAbort(c)
    BY <1>3, <2>4 DEF CoachingAbort, Caring, CaredFor
  <2> QED
    BY <2>1, <2>2, <2>3, <2>4
<1> QED
  BY <1>1, <1>2, <1>3 DEF CaredFor

LEMMA CrisisStep ==
  ASSUME IndInv, CrisisReachesTeam, [CoachingNext]_coachingVars
  PROVE  CrisisReachesTeam'
<1>1. CASE UNCHANGED coachingVars
  BY <1>1 DEF coachingVars, CrisisReachesTeam
<1>2. ASSUME CoachingNext, NEW r \in redirects PROVE CaredFor(r[1])'
  <2>1. r[1] \in CSessions /\ CaredFor(r[1])
    BY DEF IndInv, CoachingTypeOK, CrisisReachesTeam, CaredFor, Caring
  <2> QED
    BY <1>2, <2>1, CareIsKept
<1>3. ASSUME NEW c \in Calls, Redirect(c), NEW r \in redirects', r \notin redirects
      PROVE  CaredFor(r[1])'
  <2>1. r[1] = ccalls[c].on
    BY <1>3 DEF Redirect
  <2>2. ccalls'[c] # None /\ ccalls'[c].on = ccalls[c].on /\ ccalls'[c].at = "crisisEnd"
    <3>1. ccalls[c] # None /\ ccalls[c].at \in InCrisis /\ "crisisEnd" \in InCrisis
      BY <1>3 DEF Redirect, Waits, InCrisis
    <3>2. ccalls'[c] = [ccalls[c] EXCEPT !.at = "crisisEnd"]
      BY <1>3 DEF Redirect, IndInv, CoachingTypeOK
    <3> QED
      BY <3>1, <3>2, CrisisCall, CoachingAssumption
  <2>3. Caring(c, r[1])'
    BY <2>1, <2>2 DEF Caring
  <2> QED
    BY <2>3 DEF CaredFor
<1>4. CoachingNext => redirects' = redirects \/ \E c \in Calls : Redirect(c)
  <2>1. ASSUME NEW c \in Calls, CoachingStep(c), ~Redirect(c) PROVE redirects' = redirects
    <3>1. CASE EarlyStep(c)
      BY <2>1, <3>1 DEF EarlyStep, OpeningMessage, WriteOpeningStage, Reactivate, Classify,
         LogFlag, CrisisTurn, LogSafetyEvent
    <3>2. CASE CareStep(c)
      BY <3>2 DEF CareStep, CompleteCrisis, NumberTicket, CreateSupportTicket
    <3>3. CASE ReplyStep(c)
      BY <3>3 DEF ReplyStep, CountClientTurns, ClientTurn, CoachTurn, SetSessionGoal,
         CoachMessage, UpdateSessionStage, CompleteSessionRow, ReadTranscript, StoreSummary
    <3> QED
      BY <2>1, <3>1, <3>2, <3>3 DEF CoachingStep, EarlyStep, CareStep, ReplyStep
  <2>2. ASSUME NEW c \in Calls, NEW s \in CSessions, ProcessTurn(c, s) \/ EndSession(c, s)
        PROVE  redirects' = redirects
    BY <2>2 DEF ProcessTurn, EndSession
  <2>3. ASSUME NEW c \in Calls, StartSession(c) \/ CoachingAbort(c)
        PROVE  redirects' = redirects
    BY <2>3 DEF StartSession, CoachingAbort
  <2> QED
    BY <2>1, <2>2, <2>3 DEF CoachingNext
<1>5. CoachingNext => \A r \in redirects' : CaredFor(r[1])'
  BY <1>2, <1>3, <1>4
<1> QED
  BY <1>1, <1>5 DEF CrisisReachesTeam, CaredFor, Caring

(* Behind a redirect there is a ticket for the team, a handler on its way  *)
(* to one or a handler that failed: createSupportTicket loses a ticket     *)
(* only to a reference another ticket has.                                 *)
THEOREM CrisisNeverForgotten == CoachingSpec => []CrisisReachesTeam
<1>1. CoachingInit => CrisisReachesTeam
  BY DEF CoachingInit, CrisisReachesTeam
<1> QED
  BY <1>1, CrisisStep, CoachingInvariant, PTL DEF CoachingSpec

----------------------------------------------------------------------------
(* The refinement of GrowArc.                                              *)

LEMMA Topmost ==
  ASSUME NEW W, NEW n \in Stages, Reached(W, n)
  PROVE  (CHOOSE m \in W \cup {1} : \A k \in W \cup {1} : k <= m) = n
<1>1. n \in Nat \ {0} /\ n \in 1..n
  BY StageAssumption DEF Stages
<1>2. \A m \in 1..n : (\A k \in 1..n : k <= m) => m = n
  BY <1>1
<1>3. \A k \in 1..n : k <= n
  BY <1>1
<1> QED
  BY <1>1, <1>2, <1>3 DEF Reached

(* Either nothing is begun and nothing said, a session begins, or the      *)
(* coach speaks once.                                                      *)
Silent ==
  /\ said' = said
  /\ \A s \in CSessions : csessions'[s] = None <=> csessions[s] = None

Begins(s) ==
  /\ said' = said
  /\ csessions[s] = None /\ csessions'[s] # None
  /\ \A t \in CSessions \ {s} : csessions'[t] = csessions[t]

Speaks(s, next) ==
  /\ csessions' = csessions
  /\ csessions[s] # None
  /\ Follows(said[s], next)
  /\ said' = [said EXCEPT ![s] = @ \cup {next}]

LEMMA MovesOfNext ==
  ASSUME IndInv, CoachingNext
  PROVE  \/ Silent
         \/ \E s \in CSessions : Begins(s)
         \/ \E s \in CSessions, next \in Stages : Speaks(s, next)
<1>1. ASSUME NEW c \in Calls, StartSession(c) PROVE \E s \in CSessions : Begins(s)
  <2>1. PICK s \in FreeIds(csessions) :
          csessions' = [csessions EXCEPT ![s] = [status |-> "active", stage |-> 1, goal |-> None]]
    BY <1>1 DEF StartSession
  <2>2. s \in CSessions /\ csessions[s] = None
    BY DEF FreeIds, RowIds, IndInv, CoachingTypeOK
  <2>3. [status |-> "active", stage |-> 1, goal |-> None] \in CSession
    BY StageAssumption DEF CSession, Stages
  <2>4. [status |-> "active", stage |-> 1, goal |-> None] # None
    BY <2>3, CoachingAssumption
  <2> QED
    BY <1>1, <2>1, <2>2, <2>4 DEF StartSession, Begins, IndInv, CoachingTypeOK
<1>2. ASSUME NEW c \in Calls, OpeningMessage(c) \/ CoachMessage(c) \/ Redirect(c)
      PROVE  \E s \in CSessions, next \in Stages : Speaks(s, next)
  <2>1. ccalls[c] # None /\ ccalls[c].on \in CSessions /\ csessions[ccalls[c].on] # None
    BY <1>2, RowOfCall DEF OpeningMessage, CoachMessage, Redirect, Waits
  <2>2. CASE OpeningMessage(c)
    <3>1. 1 \in Stages
      BY StageAssumption DEF Stages
    <3>2. PICK next \in Stages :
            /\ next \in {1, 1 + 1}
            /\ said' = [said EXCEPT ![ccalls[c].on] = @ \cup {next}]
      BY <2>2, <3>1, ResolvedStage DEF OpeningMessage
    <3>3. Follows(said[ccalls[c].on], next)
      BY <3>2 DEF Follows
    <3> QED
      BY <2>1, <2>2, <3>2, <3>3 DEF OpeningMessage, Speaks
  <2>3. CASE CoachMessage(c)
    <3>1. /\ ccalls[c].next \in Stages
          /\ ccalls[c].stage \in said[ccalls[c].on] \cup {1}
          /\ ccalls[c].next \in {ccalls[c].stage, ccalls[c].stage + 1}
      BY <2>3, AnsweredTurn DEF CoachMessage, Waits, Answered, IndInv, CallOK, Spoken
    <3>2. Follows(said[ccalls[c].on], ccalls[c].next)
      BY <3>1 DEF Follows
    <3> QED
      BY <2>1, <2>3, <3>1, <3>2 DEF CoachMessage, Speaks
  <2>4. CASE Redirect(c)
    <3>1. ccalls[c].stage \in Stages /\ ccalls[c].stage \in said[ccalls[c].on] \cup {1}
      BY <2>4, ShapeOfCall DEF Redirect, Waits, InCrisis, IndInv, CallOK, Spoken
    <3>2. Follows(said[ccalls[c].on], ccalls[c].stage)
      BY <3>1 DEF Follows
    <3> QED
      BY <2>1, <2>4, <3>1, <3>2 DEF Redirect, Speaks
  <2> QED
    BY <1>2, <2>2, <2>3, <2>4
<1>3. ASSUME NEW c \in Calls,
             \/ WriteOpeningStage(c) \/ Reactivate(c) \/ CompleteCrisis(c)
             \/ SetSessionGoal(c) \/ UpdateSessionStage(c)
             \/ CompleteSessionRow(c) \/ StoreSummary(c)
      PROVE  Silent
  <2>1. ccalls[c] # None
    BY <1>3 DEF WriteOpeningStage, Reactivate, CompleteCrisis, SetSessionGoal,
                UpdateSessionStage, CompleteSessionRow, StoreSummary, Waits
  <2>2. csessions[ccalls[c].on] # None
    BY <2>1, RowOfCall
  <2>3. Kept
    <3>1. csessions'[ccalls[c].on] # None
      <4>1. csessions[ccalls[c].on] \in CSession /\ ccalls[c].on \in CSessions
        BY <2>1, RowOfCall
      <4>2. ccalls[c].at \in {"openStage", "stage"} => ccalls[c].stage \in Stages
        BY <2>1, ShapeOfCall DEF IndInv, Answered
      <4>3. ccalls[c].at \in Answered =>
              ccalls[c].next \in Stages /\ ccalls[c].goal \in Goals \cup {None}
        BY <2>1, ShapeOfCall DEF IndInv
      <4>4. csessions'[ccalls[c].on] \in CSession
        BY <1>3, <4>1, <4>2, <4>3
           DEF WriteOpeningStage, Reactivate, CompleteCrisis, SetSessionGoal,
               UpdateSessionStage, CompleteSessionRow, StoreSummary, Waits, Answered,
               CSession, IndInv, CoachingTypeOK
      <4> QED
        BY <4>4, CoachingAssumption
    <3> QED
      BY <1>3, <3>1
         DEF WriteOpeningStage, Reactivate, CompleteCrisis, SetSessionGoal, Kept,
             UpdateSessionStage, CompleteSessionRow, StoreSummary, IndInv, CoachingTypeOK
  <2>4. \A s \in CSessions : s # ccalls[c].on => csessions'[s] = csessions[s]
    BY <1>3 DEF WriteOpeningStage, Reactivate, CompleteCrisis, SetSessionGoal,
                UpdateSessionStage, CompleteSessionRow, StoreSummary, IndInv, CoachingTypeOK
  <2>5. said' = said
    BY <1>3 DEF WriteOpeningStage, Reactivate, CompleteCrisis, SetSessionGoal,
                UpdateSessionStage, CompleteSessionRow, StoreSummary
  <2> QED
    BY <2>2, <2>3, <2>4, <2>5 DEF Silent, Kept
<1>4. ASSUME NEW c \in Calls,
             \/ CoachingAbort(c) \/ Classify(c) \/ LogFlag(c) \/ CrisisTurn(c)
             \/ LogSafetyEvent(c) \/ NumberTicket(c) \/ CreateSupportTicket(c)
             \/ CountClientTurns(c) \/ ClientTurn(c) \/ CoachTurn(c) \/ ReadTranscript(c)
             \/ \E s \in CSessions : ProcessTurn(c, s) \/ EndSession(c, s)
      PROVE  Silent
  <2>1. csessions' = csessions /\ said' = said
    BY <1>4 DEF CoachingAbort, Classify, LogFlag, CrisisTurn, LogSafetyEvent, NumberTicket,
                CreateSupportTicket, CountClientTurns, ClientTurn, CoachTurn, ReadTranscript,
                ProcessTurn, EndSession
  <2> QED
    BY <2>1 DEF Silent
<1> QED
  BY <1>1, <1>2, <1>3, <1>4 DEF CoachingNext, CoachingStep

(* The furthest stage of a session, before and after a step.               *)
LEMMA FurthestNow ==
  ASSUME NEW s \in CSessions
  PROVE  /\ csessions[s] = None => Furthest(s) = 0
         /\ csessions[s] # None =>
              \A n \in Stages : Reached(said[s], n) => Furthest(s) = n
BY Topmost DEF Furthest

LEMMA FurthestNext ==
  ASSUME NEW s \in CSessions
  PROVE  /\ csessions'[s] = None => Furthest(s)' = 0
         /\ csessions'[s] # None =>
              \A n \in Stages : Reached(said'[s], n) => Furthest(s)' = n
<1> PICK W : W = said'[s]
  OBVIOUS
<1>1. \A n \in Stages : Reached(W, n) =>
        (CHOOSE m \in W \cup {1} : \A k \in W \cup {1} : k <= m) = n
  BY Topmost
<1> QED
  BY <1>1 DEF Furthest

LEMMA SilentKeeps ==
  ASSUME NEW s \in CSessions, said'[s] = said[s],
         csessions'[s] = None <=> csessions[s] = None
  PROVE  Furthest(s)' = Furthest(s)
BY DEF Furthest

LEMMA AdvanceOf ==
  ASSUME NEW s \in CSessions, Furthest(s) < StageCount, Furthest(s)' = Furthest(s) + 1,
         \A t \in CSessions \ {s} : Furthest(t)' = Furthest(t)
  PROVE  Arc!Next
<1> DEFINE f == [t \in CSessions |-> Furthest(t)]
<1>1. f' = [t \in CSessions |-> Furthest(t)']
  OBVIOUS
<1>2. f' = [f EXCEPT ![s] = f[s] + 1]
  BY <1>1
<1> QED
  BY <1>2 DEF Arc!Next, Arc!Advance

LEMMA NextRefines ==
  ASSUME IndInv, IndInv', [CoachingNext]_coachingVars
  PROVE  \/ Arc!Next
         \/ UNCHANGED [s \in CSessions |-> Furthest(s)]
<1>1. CASE UNCHANGED coachingVars
  BY <1>1 DEF coachingVars, Furthest
<1>2. CASE Silent
  <2>1. \A s \in CSessions : Furthest(s)' = Furthest(s)
    BY <1>2, SilentKeeps DEF Silent
  <2> QED
    BY <2>1
<1>3. ASSUME NEW s \in CSessions, Begins(s) PROVE Arc!Next
  <2>1. Furthest(s) = 0
    BY <1>3, FurthestNow DEF Begins
  <2>2. 1 \in Stages /\ StageCount \in Nat /\ 0 < StageCount
    BY StageAssumption DEF Stages
  <2>3. Reached(said'[s], 1)
    <3>1. said'[s] = {} /\ {1} = 1..1
      BY <1>3 DEF Begins, IndInv, SessionOK
    <3> QED
      BY <3>1 DEF Reached
  <2>4. Furthest(s)' = 1
    BY <1>3, <2>2, <2>3, FurthestNext DEF Begins
  <2>5. \A t \in CSessions \ {s} : Furthest(t)' = Furthest(t)
    BY <1>3, SilentKeeps DEF Begins
  <2> QED
    BY <2>1, <2>2, <2>4, <2>5, AdvanceOf
<1>4. ASSUME NEW s \in CSessions, NEW next \in Stages, Speaks(s, next)
      PROVE  Arc!Next \/ UNCHANGED [t \in CSessions |-> Furthest(t)]
  <2>1. PICK n \in Stages : Reached(said[s], n)
    BY DEF IndInv, SessionOK, Spoken, Reached
  <2>2. Follows(said[s], next)
    BY <1>4 DEF Speaks
  <2>3. PICK m \in Stages : Reached(said[s] \cup {next}, m) /\ m \in {n, n + 1}
    BY <2>1, <2>2, OneStageMore
  <2>4. said'[s] = said[s] \cup {next} /\ csessions'[s] # None /\ csessions[s] # None
    BY <1>4 DEF Speaks, IndInv, CoachingTypeOK
  <2>5. Furthest(s) = n /\ Furthest(s)' = m
    <3>1. Reached(said'[s], m)
      BY <2>3, <2>4
    <3> QED
      BY <2>1, <2>4, <3>1, FurthestNow, FurthestNext
  <2>6. \A t \in CSessions \ {s} : Furthest(t)' = Furthest(t)
    BY <1>4, SilentKeeps DEF Speaks, IndInv, CoachingTypeOK
  <2>7. CASE m = n
    <3>1. \A t \in CSessions : Furthest(t)' = Furthest(t)
      BY <2>5, <2>6, <2>7
    <3> QED
      BY <3>1
  <2>8. CASE m = n + 1
    <3>1. n < StageCount
      BY <2>8, StageAssumption DEF Stages
    <3> QED
      BY <2>5, <2>6, <2>8, <3>1, AdvanceOf
  <2> QED
    BY <2>3, <2>7, <2>8
<1> QED
  BY <1>1, <1>2, <1>3, <1>4, MovesOfNext

LEMMA InitRefines == CoachingInit => Arc!Init
<1> SUFFICES ASSUME CoachingInit PROVE Arc!Init
  OBVIOUS
<1>1. \A s \in CSessions : Furthest(s) = 0
  BY DEF CoachingInit, Furthest
<1> QED
  BY <1>1 DEF Arc!Init

(* The messages of a session come from the stages in their order, one at a *)
(* time and none left out, although a turn resolves its stage from one it  *)
(* read before the model was called and another turn may have written      *)
(* since.                                                                  *)
THEOREM ArcRefinement == CoachingSpec => ImplementsGrowArc
<1>1. IndInv /\ IndInv' /\ [CoachingNext]_coachingVars
        => [Arc!Next]_([s \in CSessions |-> Furthest(s)])
  BY NextRefines
<1> QED
  BY <1>1, InitRefines, CoachingInvariant, PTL DEF CoachingSpec, ImplementsGrowArc, Arc!Spec

----------------------------------------------------------------------------
(* The rulebook.  Once one was published there are rules, in whole sets,   *)
(* and one set as long as no two replacements overlapped.  A replacement   *)
(* retires the sets it finds when its update runs.  Alone, it finds all of *)
(* them: while no two overlapped there is at most one in its transaction,  *)
(* what it has seen is the book as it still is, and what it has retired is *)
(* what it has seen.                                                       *)

SwapStages == {"ask", "retire", "wait", "insert", "commit", "read", "rules", "lessons"}

Swap == [at : SwapStages, seen : SUBSET RuleSets, retired : SUBSET RuleSets,
         set : RuleSets \cup {None}, late : BOOLEAN]

RulebookTypeInv ==
  /\ book \subseteq RuleSets
  /\ published \subseteq RuleSets
  /\ swaps \in [Calls -> Swap \cup {None}]

SwapOK(c) ==
  swaps[c] # None =>
    /\ swaps[c].late => published # {}
    /\ swaps[c].at = "lessons" => ~swaps[c].late
    /\ swaps[c].at \in {"retire", "wait", "insert", "commit"} => swaps[c].set \in RuleSets

(* As long as no two replacements overlapped.                              *)
SwapsAlone ==
  /\ \A c, d \in Calls : InTransaction(c) /\ InTransaction(d) => c = d
  /\ \A c \in Calls : InTransaction(c) => swaps[c].seen = book
  /\ \A c \in Calls : InTransaction(c) /\ swaps[c].at # "wait" => swaps[c].retired = book
  /\ \A s, t \in book : s = t

RulebookInv ==
  /\ RulebookTypeInv
  /\ published # {} => book # {}
  /\ book \subseteq published
  /\ \A c \in Calls : SwapOK(c)
  /\ swapsApart => SwapsAlone

LEMMA RulebookInitOK == RulebookInit => RulebookInv
BY DEF RulebookInit, RulebookInv, RulebookTypeInv, SwapOK, SwapsAlone, InTransaction

(* A step of call c outside a transaction, or out of one.                  *)
LEMMA OutsideStep ==
  ASSUME RulebookInv, NEW c \in Calls, NEW k \in Swap \cup {None},
         swaps' = [swaps EXCEPT ![c] = k],
         UNCHANGED <<book, published, swapsApart>>,
         k # None => /\ k.at \notin {"wait", "insert", "commit"}
                     /\ k.late => published # {}
                     /\ k.at = "lessons" => ~k.late
                     /\ k.at = "retire" => k.set \in RuleSets
  PROVE  RulebookInv'
<1>1. swaps'[c] = k /\ \A d \in Calls : d # c => swaps'[d] = swaps[d]
  BY DEF RulebookInv, RulebookTypeInv
<1>2. \A d \in Calls : SwapOK(d)'
  BY <1>1 DEF RulebookInv, SwapOK
<1>3. ~InTransaction(c)' /\ \A d \in Calls : d # c => (InTransaction(d)' <=> InTransaction(d))
  BY <1>1 DEF InTransaction
<1>4. SwapsAlone => SwapsAlone'
  BY <1>1, <1>3 DEF SwapsAlone
<1> QED
  BY <1>2, <1>4 DEF RulebookInv, RulebookTypeInv

LEMMA OutsideSteps ==
  ASSUME RulebookInv, NEW c \in Calls,
         \/ Consolidate(c) \/ AskModel(c) \/ RollBack(c)
         \/ GetRules(c) \/ ReadRules(c) \/ UseRules(c)
  PROVE  RulebookInv'
<1>1. UNCHANGED <<book, published, swapsApart>>
  BY DEF Consolidate, AskModel, RollBack, GetRules, ReadRules, UseRules
<1>2. CASE swaps' = [swaps EXCEPT ![c] = None]
  BY <1>1, <1>2, OutsideStep
<1>3. ASSUME NEW at \in {"ask", "read"}, swaps' = [swaps EXCEPT ![c] = SwapCall(at)]
      PROVE  RulebookInv'
  <2> DEFINE k == SwapCall(at)
  <2>1. k \in Swap /\ k.at = at /\ (k.late => published # {})
    <3>1. (published # {}) \in BOOLEAN
      OBVIOUS
    <3> QED
      BY <3>1 DEF SwapCall, Swap, SwapStages
  <2>2. swaps' = [swaps EXCEPT ![c] = k]
    BY <1>3
  <2> HIDE DEF k
  <2> QED
    BY <1>1, <2>1, <2>2, OutsideStep
<1>4. CASE AskModel(c)
  <2>1. swaps[c] # None /\ swaps[c] \in Swap /\ (swaps[c].late => published # {})
    BY <1>4 DEF AskModel, Waits, RulebookInv, RulebookTypeInv, SwapOK
  <2>2. ASSUME NEW s \in RuleSets, swaps' = [swaps EXCEPT ![c].at = "retire", ![c].set = s]
        PROVE  RulebookInv'
    <3> DEFINE k == [swaps[c] EXCEPT !.at = "retire", !.set = s]
    <3>1. k \in Swap /\ k.at = "retire" /\ k.set = s /\ k.late = swaps[c].late
      BY <2>1 DEF Swap, SwapStages
    <3>2. swaps' = [swaps EXCEPT ![c] = k]
      BY <2>2
    <3> HIDE DEF k
    <3> QED
      BY <1>1, <2>1, <3>1, <3>2, OutsideStep
  <2> QED
    BY <1>2, <1>4, <2>2 DEF AskModel, SwapEnds
<1>5. CASE ReadRules(c)
  <2>1. swaps[c] # None /\ swaps[c] \in Swap /\ (swaps[c].late => published # {})
    BY <1>5 DEF ReadRules, Waits, RulebookInv, RulebookTypeInv, SwapOK
  <2> DEFINE at == IF book # {} THEN "rules" ELSE "lessons"
             k  == [swaps[c] EXCEPT !.at = at, !.seen = book]
  <2>2. k \in Swap /\ k.at = at /\ k.late = swaps[c].late
    BY <2>1 DEF Swap, SwapStages, RulebookInv, RulebookTypeInv
  <2>3. at = "lessons" => ~swaps[c].late
    BY <2>1 DEF RulebookInv
  <2>4. swaps' = [swaps EXCEPT ![c] = k]
    BY <1>5 DEF ReadRules
  <2>5. at \in {"rules", "lessons"}
    OBVIOUS
  <2> HIDE DEF k, at
  <2> QED
    BY <1>1, <2>1, <2>2, <2>3, <2>4, <2>5, OutsideStep
<1> QED
  BY <1>2, <1>3, <1>4, <1>5
     DEF Consolidate, RollBack, GetRules, UseRules, SwapEnds

(* A step inside a transaction, before its commit.                         *)
LEMMA InsideSteps ==
  ASSUME RulebookInv, NEW c \in Calls, BeginSwap(c) \/ Retire(c) \/ InsertRules(c)
  PROVE  RulebookInv'
<1>1. swaps[c] # None /\ swaps[c] \in Swap /\ SwapOK(c) /\ swaps[c].set \in RuleSets
  BY DEF BeginSwap, Retire, InsertRules, Waits, RulebookInv, RulebookTypeInv, SwapOK
<1>2. PICK at \in {"wait", "insert", "commit"}, seen \in SUBSET RuleSets,
           retired \in SUBSET RuleSets :
        /\ swaps' = [swaps EXCEPT ![c] = [swaps[c] EXCEPT !.at = at, !.seen = seen,
                                                          !.retired = retired]]
        /\ BeginSwap(c) => at = "wait" /\ seen = book
        /\ Retire(c) => at = "insert" /\ seen = swaps[c].seen
                          /\ retired = swaps[c].seen \cap book
        /\ InsertRules(c) => at = "commit" /\ seen = swaps[c].seen
                               /\ retired = swaps[c].retired
  <2>1. CASE BeginSwap(c)
    <3>1. [swaps[c] EXCEPT !.at = "wait", !.seen = book]
            = [swaps[c] EXCEPT !.at = "wait", !.seen = book, !.retired = swaps[c].retired]
      BY <1>1 DEF Swap
    <3>2. ~Retire(c) /\ ~InsertRules(c)
      BY <2>1 DEF BeginSwap, Retire, InsertRules, Waits
    <3>3. swaps[c].retired \in SUBSET RuleSets /\ book \in SUBSET RuleSets
      BY <1>1 DEF Swap, RulebookInv, RulebookTypeInv
    <3>4. swaps' = [swaps EXCEPT ![c] =
            [swaps[c] EXCEPT !.at = "wait", !.seen = book, !.retired = swaps[c].retired]]
      BY <2>1, <3>1 DEF BeginSwap
    <3> QED
      BY <3>2, <3>3, <3>4, Zenon
  <2>2. CASE Retire(c)
    <3>1. [swaps[c] EXCEPT !.at = "insert", !.retired = swaps[c].seen \cap book]
            = [swaps[c] EXCEPT !.at = "insert", !.seen = swaps[c].seen,
                               !.retired = swaps[c].seen \cap book]
      BY <1>1 DEF Swap
    <3>2. ~BeginSwap(c) /\ ~InsertRules(c)
      BY <2>2 DEF BeginSwap, Retire, InsertRules, Waits
    <3>3. swaps[c].seen \in SUBSET RuleSets /\ swaps[c].seen \cap book \in SUBSET RuleSets
      BY <1>1 DEF Swap
    <3>4. swaps' = [swaps EXCEPT ![c] =
            [swaps[c] EXCEPT !.at = "insert", !.seen = swaps[c].seen,
                             !.retired = swaps[c].seen \cap book]]
      BY <2>2, <3>1 DEF Retire
    <3> QED
      BY <3>2, <3>3, <3>4, Zenon
  <2>3. CASE InsertRules(c)
    <3>1. [swaps[c] EXCEPT !.at = "commit"]
            = [swaps[c] EXCEPT !.at = "commit", !.seen = swaps[c].seen,
                               !.retired = swaps[c].retired]
      BY <1>1 DEF Swap
    <3> QED
      BY <1>1, <2>3, <3>1
         DEF BeginSwap, Retire, InsertRules, SwapGoes, Waits, RulebookInv, RulebookTypeInv, Swap
  <2> QED
    BY <2>1, <2>2, <2>3
<1> DEFINE k == [swaps[c] EXCEPT !.at = at, !.seen = seen, !.retired = retired]
<1>3. /\ k \in Swap /\ k.at = at /\ k.seen = seen /\ k.retired = retired
      /\ k.set = swaps[c].set /\ k.late = swaps[c].late
  BY <1>1 DEF Swap, SwapStages
<1>4. swaps' = [swaps EXCEPT ![c] = k]
  BY <1>2
<1> HIDE DEF k
<1>5. swaps'[c] = k /\ \A d \in Calls : d # c => swaps'[d] = swaps[d]
  BY <1>4 DEF RulebookInv, RulebookTypeInv
<1>6. UNCHANGED <<book, published>> /\ RulebookTypeInv'
  BY <1>3, <1>4 DEF BeginSwap, Retire, InsertRules, RulebookInv, RulebookTypeInv
<1>7. \A d \in Calls : SwapOK(d)'
  BY <1>1, <1>3, <1>5, <1>6 DEF RulebookInv, SwapOK
<1>8. \A d \in Calls : d # c => (InTransaction(d)' <=> InTransaction(d))
  BY <1>5 DEF InTransaction
<1>9. swapsApart' => SwapsAlone'
  <2>1. swapsApart' => swapsApart /\ (BeginSwap(c) => \A d \in Calls : ~InTransaction(d))
    BY DEF BeginSwap, Retire, InsertRules
  <2>2. ~BeginSwap(c) => InTransaction(c)
    BY DEF Retire, InsertRules, InTransaction, Waits
  <2>3. InTransaction(c) /\ SwapsAlone => swaps[c].seen = book
    BY DEF SwapsAlone
  <2>4. CASE BeginSwap(c)
    BY <1>2, <1>3, <1>5, <1>6, <1>8, <2>1, <2>4 DEF RulebookInv, SwapsAlone
  <2>5. CASE Retire(c) \/ InsertRules(c)
    <3>1. InTransaction(c) /\ (InsertRules(c) => swaps[c].at # "wait")
      BY <2>5 DEF Retire, InsertRules, InTransaction, Waits
    <3>2. swapsApart' => SwapsAlone /\ swapsApart
      BY <2>5 DEF Retire, InsertRules, RulebookInv
    <3>3. SwapsAlone => k.seen = book /\ (k.at # "wait" => k.retired = book)
      BY <1>2, <1>3, <2>5, <3>1 DEF SwapsAlone
    <3> QED
      BY <1>5, <1>6, <1>8, <3>1, <3>2, <3>3 DEF SwapsAlone
  <2> QED
    BY <2>4, <2>5
<1> QED
  BY <1>6, <1>7, <1>9 DEF RulebookInv

LEMMA CommitStep ==
  ASSUME RulebookInv, NEW c \in Calls, CommitSwap(c)
  PROVE  RulebookInv'
<1>1. /\ swaps[c] # None /\ swaps[c] \in Swap /\ swaps[c].set \in RuleSets /\ InTransaction(c)
      /\ swaps[c].at = "commit"
  BY DEF CommitSwap, Waits, RulebookInv, RulebookTypeInv, SwapOK, InTransaction
<1>2. swaps'[c] = None /\ \A d \in Calls : d # c => swaps'[d] = swaps[d]
  BY DEF CommitSwap, SwapEnds, RulebookInv, RulebookTypeInv
<1>3. /\ book' = (book \ swaps[c].retired) \cup {swaps[c].set}
      /\ published' = published \cup {swaps[c].set}
      /\ swapsApart' = swapsApart
  BY DEF CommitSwap
<1>4. RulebookTypeInv'
  BY <1>1, <1>3 DEF CommitSwap, SwapEnds, RulebookInv, RulebookTypeInv
<1>5. book' # {} /\ book' \subseteq published'
  BY <1>3 DEF RulebookInv
<1>6. \A d \in Calls : SwapOK(d)'
  BY <1>2, <1>3 DEF RulebookInv, SwapOK
<1>7. SwapsAlone => SwapsAlone'
  <2>1. SwapsAlone => book' = {swaps[c].set}
    BY <1>1, <1>3 DEF SwapsAlone
  <2>2. SwapsAlone => \A d \in Calls : ~InTransaction(d)'
    BY <1>1, <1>2 DEF SwapsAlone, InTransaction
  <2> QED
    BY <2>1, <2>2 DEF SwapsAlone
<1> QED
  BY <1>3, <1>4, <1>5, <1>6, <1>7 DEF RulebookInv

LEMMA RulebookStepOK == RulebookInv /\ [RulebookNext]_rulebookVars => RulebookInv'
<1> SUFFICES ASSUME RulebookInv, [RulebookNext]_rulebookVars PROVE RulebookInv'
  OBVIOUS
<1>1. CASE UNCHANGED rulebookVars \/ Distill
  BY <1>1 DEF rulebookVars, Distill, RulebookInv, RulebookTypeInv, SwapOK, SwapsAlone,
              InTransaction
<1>2. ASSUME NEW c \in Calls, RulebookStep(c) PROVE RulebookInv'
  BY <1>2, OutsideSteps, InsideSteps, CommitStep DEF RulebookStep
<1> QED
  BY <1>1, <1>2 DEF RulebookNext

(* Once published there are rules, whole sets of them, one set unless two  *)
(* replacements overlapped, and no turn falls back to raw lessons:         *)
(* replaceRulebook and getRules, whatever fails.                           *)
THEOREM RulebookNeverLost == RulebookSpec => []RulebookSurvives
<1>1. RulebookInv => RulebookSurvives
  <2> SUFFICES ASSUME RulebookInv PROVE RulebookSurvives
    OBVIOUS
  <2>1. swapsApart => Cardinality(book) <= 1
    <3> SUFFICES ASSUME swapsApart PROVE Cardinality(book) <= 1
      OBVIOUS
    <3>1. CASE book = {}
      BY <3>1, FS_EmptySet
    <3>2. ASSUME NEW s \in book PROVE Cardinality(book) <= 1
      <4>1. book = {s}
        BY DEF RulebookInv, SwapsAlone
      <4> QED
        BY <4>1, FS_Singleton
    <3> QED
      BY <3>1, <3>2
  <2>2. \A c \in RowIds(swaps) : swaps[c].at = "lessons" => ~swaps[c].late
    BY DEF RulebookInv, RulebookTypeInv, SwapOK, RowIds
  <2> QED
    BY <2>1, <2>2 DEF RulebookInv, RulebookSurvives
<1> QED
  BY <1>1, RulebookInitOK, RulebookStepOK, PTL DEF RulebookSpec

----------------------------------------------------------------------------
(* The insights.  What getInsights serves as cached or made on the spot    *)
(* covers the posts counted when the call began, or as many as are ever    *)
(* read, unless the posts could not be read or the reply not be used.      *)
(* Whatever carries such insights (the entry, the job, a call) carries a   *)
(* hash that is at most the posts they cover, for the hash was read before *)
(* them and the counters never run ahead of the posts; and a call that has *)
(* read a hash has read one at least as new as its beginning, or none at   *)
(* all, and then it takes nothing that is cached for its own.              *)

InsightsTypeInv ==
  /\ text \in Nat
  /\ counted \in 0..text
  /\ entry \in Insights \cup {None}
  /\ genLock \in BOOLEAN
  /\ job \in Job \cup {None}
  /\ icalls \in [Calls -> InsightCall \cup {None}]

(* So many posts read cover so many counted, or are all that are read.     *)
Enough(read, count) == count <= read \/ ReadLimit <= read

(* Insights that are whole cover the posts their hash stands for.          *)
Covers(i) == i # None => (i.whole = TRUE => Enough(i.text, i.hash))

JobOK == job # None =>
           /\ job.hash <= counted
           /\ job.at \in {"store", "unlock"} => (job.whole = TRUE => Enough(job.text, job.hash))

(* What a call has read is no older than its beginning, and no newer than  *)
(* now; insights it made on the spot are stored under the hash it read.    *)
InsightCallOK(k) ==
  k # None =>
    /\ k.since <= counted
    /\ Covers(k.seen)
    /\ k.at # "readHash" => k.hash <= counted /\ (k.hash = NoHash \/ k.since <= k.hash)
    /\ k.at = "hit" => k.hash # NoHash
    /\ k.at \in {"hit", "store", "unlock", "fresh"} => k.seen # None /\ k.seen.hash = k.hash
    /\ k.at \in {"hit", "store", "unlock", "fresh"} =>
         (k.seen.whole = TRUE => Enough(k.seen.text, k.since))

InsightsInv ==
  InsightsTypeInv /\ Covers(entry) /\ JobOK /\ \A c \in Calls : InsightCallOK(icalls[c])

(* What is generated is enough for all there is at the time.               *)
LEMMA GeneratedEnough ==
  ASSUME InsightsInv, NEW got \in Generated
  PROVE  /\ got.text \in Nat /\ got.whole \in BOOLEAN
         /\ got.whole = TRUE => \A n \in Int : n <= counted => Enough(got.text, n)
<1>1. text \in Nat /\ counted \in 0..text /\ ReadLimit \in Nat
  BY InsightsAssumption DEF InsightsInv, InsightsTypeInv
<1>2. CASE got = [text |-> IF text <= ReadLimit THEN text ELSE ReadLimit, whole |-> TRUE]
  BY <1>1, <1>2 DEF Enough
<1>3. CASE got = [text |-> 0, whole |-> FALSE]
  BY <1>3
<1> QED
  BY <1>2, <1>3 DEF Generated

LEMMA InsightsInitOK == InsightsInit => InsightsInv
<1> SUFFICES ASSUME InsightsInit PROVE InsightsInv
  OBVIOUS
<1>1. InsightsTypeInv
  <2>1. genLock \in BOOLEAN
    BY Zenon DEF InsightsInit
  <2> QED
    BY <2>1 DEF InsightsInit, InsightsTypeInv
<1> QED
  BY <1>1 DEF InsightsInit, InsightsInv, JobOK, InsightCallOK, Covers

(* A step of one call that moves no counter.                               *)
LEMMA CallStep ==
  ASSUME InsightsInv, NEW c \in Calls, NEW k \in InsightCall \cup {None},
         icalls' = [icalls EXCEPT ![c] = k], InsightCallOK(k),
         UNCHANGED <<text, counted>>,
         entry' \in Insights \cup {None}, Covers(entry)',
         genLock' \in BOOLEAN, job' \in Job \cup {None}, JobOK'
  PROVE  InsightsInv'
<1>1. icalls' \in [Calls -> InsightCall \cup {None}]
  BY DEF InsightsInv, InsightsTypeInv
<1>2. ASSUME NEW d \in Calls PROVE InsightCallOK(icalls[d])'
  <2>1. CASE d = c
    BY <2>1 DEF InsightsInv, InsightsTypeInv, InsightCallOK, Covers
  <2>2. CASE d # c
    BY <2>2 DEF InsightsInv, InsightsTypeInv, InsightCallOK, Covers
  <2> QED
    BY <2>1, <2>2
<1>3. InsightsTypeInv'
  BY <1>1 DEF InsightsInv, InsightsTypeInv
<1> QED
  BY <1>2, <1>3 DEF InsightsInv

(* Such a step that leaves entry, lock and job alone.                      *)
LEMMA InsightQuietStep ==
  ASSUME InsightsInv, NEW c \in Calls, NEW k \in InsightCall \cup {None},
         icalls' = [icalls EXCEPT ![c] = k], InsightCallOK(k),
         UNCHANGED <<text, counted, entry, genLock, job>>
  PROVE  InsightsInv'
<1>1. Covers(entry)' /\ JobOK'
  BY DEF InsightsInv, Covers, JobOK
<1> QED
  BY <1>1, CallStep DEF InsightsInv, InsightsTypeInv

LEMMA GetInsightsStep ==
  ASSUME InsightsInv, NEW c \in Calls, GetInsights(c)
  PROVE  InsightsInv'
<1>1. counted \in Nat /\ entry \in Insights \cup {None} /\ Covers(entry) /\ Covers(None)
  BY DEF InsightsInv, InsightsTypeInv, Covers
<1>2. ASSUME NEW hash \in ContentHash,
             icalls' = [icalls EXCEPT ![c] =
               [at |-> "readCache", since |-> counted, hash |-> hash, seen |-> None]]
      PROVE  InsightsInv'
  <2> DEFINE k == [at |-> "readCache", since |-> counted, hash |-> hash, seen |-> None]
  <2>1. k \in InsightCall /\ InsightCallOK(k)
    BY <1>1, <1>2 DEF InsightCall, InsightCallOK, ContentHash, Hashes, NoHash
  <2>2. icalls' = [icalls EXCEPT ![c] = k]
    BY <1>2
  <2> HIDE DEF k
  <2> QED
    BY <2>1, <2>2, InsightQuietStep DEF GetInsights
<1>3. ASSUME NEW seen \in {entry, None},
             icalls' = [icalls EXCEPT ![c] =
               [at |-> "readHash", since |-> counted, hash |-> 0, seen |-> seen]]
      PROVE  InsightsInv'
  <2> DEFINE k == [at |-> "readHash", since |-> counted, hash |-> 0, seen |-> seen]
  <2>1. k \in InsightCall /\ InsightCallOK(k)
    BY <1>1 DEF InsightCall, InsightCallOK, Hashes
  <2>2. icalls' = [icalls EXCEPT ![c] = k]
    BY <1>3
  <2> HIDE DEF k
  <2> QED
    BY <2>1, <2>2, InsightQuietStep DEF GetInsights
<1> QED
  BY <1>2, <1>3 DEF GetInsights

LEMMA ReadSecondStep ==
  ASSUME InsightsInv, NEW c \in Calls, ReadSecond(c)
  PROVE  InsightsInv'
<1>1. icalls[c] # None /\ icalls[c] \in InsightCall /\ InsightCallOK(icalls[c])
  BY DEF ReadSecond, Waits, InsightsInv, InsightsTypeInv
<1>2. counted \in Nat /\ entry \in Insights \cup {None} /\ Covers(entry) /\ Covers(None)
  BY DEF InsightsInv, InsightsTypeInv, Covers
<1>3. ASSUME NEW seen, NEW hash, seen \in Insights \cup {None}, Covers(seen), hash \in Hashes,
             hash = NoHash \/ icalls[c].since <= hash, hash <= counted,
             icalls' = [icalls EXCEPT ![c] = [icalls[c] EXCEPT !.at = Outcome(seen, hash),
                                                !.seen = seen, !.hash = hash]]
      PROVE  InsightsInv'
  <2> DEFINE k == [icalls[c] EXCEPT !.at = Outcome(seen, hash), !.seen = seen, !.hash = hash]
  <2>1. /\ Outcome(seen, hash) \in {"miss", "hit", "stale"}
        /\ Outcome(seen, hash) = "hit" => seen # None /\ seen.hash = hash /\ hash # NoHash
    BY DEF Outcome
  <2>2. /\ k \in InsightCall /\ k.at = Outcome(seen, hash) /\ k.seen = seen /\ k.hash = hash
        /\ k.since = icalls[c].since /\ k.since \in Nat
    BY <1>1, <1>3, <2>1 DEF InsightCall
  <2>3. InsightCallOK(k)
    <3>1. k.since <= counted /\ Covers(k.seen)
      BY <1>1, <1>3, <2>2 DEF InsightCallOK
    <3>2. CASE Outcome(seen, hash) # "hit"
      BY <1>3, <2>1, <2>2, <3>1, <3>2 DEF InsightCallOK
    <3>3. CASE Outcome(seen, hash) = "hit"
      <4>1. seen \in Insights /\ k.since <= hash /\ hash \in Int
        BY <1>3, <2>1, <2>2, <3>3 DEF Hashes, NoHash
      <4>2. seen.whole = TRUE => Enough(seen.text, k.since)
        BY <1>3, <2>1, <2>2, <3>3, <4>1, InsightsAssumption DEF Covers, Enough, Insights
      <4> HIDE DEF k
      <4> QED
        BY <1>3, <2>1, <2>2, <3>1, <3>3, <4>1, <4>2 DEF InsightCallOK
    <3> QED
      BY <3>2, <3>3
  <2>4. icalls' = [icalls EXCEPT ![c] = k]
    BY <1>3
  <2> HIDE DEF k
  <2> QED
    BY <2>2, <2>3, <2>4, InsightQuietStep DEF ReadSecond
<1>4. CASE Waits(icalls[c], "readCache")
  <2>1. PICK seen \in {entry, None} :
          icalls' = [icalls EXCEPT ![c].at = Outcome(seen, icalls[c].hash), ![c].seen = seen]
    BY <1>4 DEF ReadSecond, Waits
  <2>2. [icalls[c] EXCEPT !.at = Outcome(seen, icalls[c].hash), !.seen = seen]
          = [icalls[c] EXCEPT !.at = Outcome(seen, icalls[c].hash), !.seen = seen,
                              !.hash = icalls[c].hash]
    BY <1>1 DEF InsightCall
  <2>3. /\ icalls[c].hash \in Hashes /\ icalls[c].hash <= counted
        /\ icalls[c].hash = NoHash \/ icalls[c].since <= icalls[c].hash
    BY <1>1, <1>4 DEF InsightCall, InsightCallOK, Waits
  <2> QED
    BY <1>2, <1>3, <2>1, <2>2, <2>3
<1>5. CASE Waits(icalls[c], "readHash")
  <2>1. PICK hash \in ContentHash :
          icalls' = [icalls EXCEPT ![c].at = Outcome(icalls[c].seen, hash), ![c].hash = hash]
    BY <1>5 DEF ReadSecond, Waits
  <2>6. PICK seen : seen = icalls[c].seen
    OBVIOUS
  <2>2. icalls' = [icalls EXCEPT ![c].at = Outcome(seen, hash), ![c].hash = hash]
    BY <2>1, <2>6
  <2>3. [icalls[c] EXCEPT !.at = Outcome(seen, hash), !.hash = hash]
          = [icalls[c] EXCEPT !.at = Outcome(seen, hash), !.seen = seen, !.hash = hash]
    BY <1>1, <2>6 DEF InsightCall
  <2>4. seen \in Insights \cup {None} /\ Covers(seen)
    BY <1>1, <2>6 DEF InsightCall, InsightCallOK
  <2>5. hash \in Hashes /\ (hash = NoHash \/ icalls[c].since <= hash) /\ hash <= counted
    BY <1>1, <1>2 DEF InsightCallOK, ContentHash, Hashes, NoHash
  <2> QED
    BY <1>3, <2>2, <2>3, <2>4, <2>5
<1> QED
  BY <1>4, <1>5 DEF ReadSecond

(* A call that ends.                                                       *)
LEMMA CallEnds ==
  ASSUME InsightsInv, NEW c \in Calls, icalls' = [icalls EXCEPT ![c] = None],
         UNCHANGED <<text, counted, entry>>, genLock' \in BOOLEAN,
         job' \in Job \cup {None}, JobOK'
  PROVE  InsightsInv'
<1>1. InsightCallOK(None) /\ Covers(entry)'
  BY DEF InsightCallOK, InsightsInv, Covers
<1> QED
  BY <1>1, CallStep DEF InsightsInv, InsightsTypeInv

LEMMA EndSteps ==
  ASSUME InsightsInv, NEW c \in Calls,
         Returned(c) \/ WaitForOther(c) \/ GenerationFails(c) \/ EnqueueGeneration(c)
  PROVE  InsightsInv'
<1>1. genLock' \in BOOLEAN
  BY DEF Returned, WaitForOther, GenerationFails, EnqueueGeneration, SetsLock, InsightsInv,
         InsightsTypeInv
<1>2. CASE ~EnqueueGeneration(c)
  <2>1. job' \in Job \cup {None} /\ JobOK'
    BY <1>2 DEF Returned, WaitForOther, GenerationFails, InsightsInv, InsightsTypeInv, JobOK
  <2> QED
    BY <1>1, <1>2, <2>1, CallEnds DEF Returned, WaitForOther, GenerationFails
<1>3. CASE EnqueueGeneration(c)
  <2>1. icalls[c].hash \in Hashes /\ icalls[c].hash <= counted
    BY <1>3, InsightsAssumption
       DEF EnqueueGeneration, Waits, InsightsInv, InsightsTypeInv, InsightCallOK, InsightCall
  <2>2. CASE job' = job
    BY <1>1, <1>3, <2>2, CallEnds DEF EnqueueGeneration, InsightsInv, InsightsTypeInv, JobOK
  <2>3. CASE job' = [at |-> "waiting", hash |-> icalls[c].hash, text |-> 0,
                     whole |-> FALSE, attempts |-> JobAttempts]
    <3>1. job' \in Job
      BY <2>1, <2>3, InsightsAssumption DEF Job
    <3>2. JobOK'
      BY <1>3, <2>1, <2>3 DEF EnqueueGeneration, JobOK
    <3> QED
      BY <1>1, <1>3, <3>1, <3>2, CallEnds DEF EnqueueGeneration
  <2>4. PICK locked \in {genLock, FALSE} :
          job' \in {job, IF locked \/ job # None THEN job
                         ELSE [at |-> "waiting", hash |-> icalls[c].hash, text |-> 0,
                               whole |-> FALSE, attempts |-> JobAttempts]}
    BY <1>3 DEF EnqueueGeneration
  <2> QED
    BY <2>2, <2>3, <2>4
<1> QED
  BY <1>2, <1>3

(* From a miss to fresh insights.                                          *)
LEMMA InlineSteps ==
  ASSUME InsightsInv, NEW c \in Calls,
         LockInline(c) \/ GenerateInline(c) \/ StoreInline(c) \/ UnlockInline(c)
  PROVE  InsightsInv'
<1>1. icalls[c] # None /\ icalls[c] \in InsightCall /\ InsightCallOK(icalls[c])
  BY DEF LockInline, GenerateInline, StoreInline, UnlockInline, Waits, InsightsInv, InsightsTypeInv
<1>2. /\ genLock' \in BOOLEAN /\ job' \in Job \cup {None} /\ JobOK'
      /\ UNCHANGED <<text, counted>>
  BY DEF LockInline, GenerateInline, StoreInline, UnlockInline, SetsLock, InsightsInv,
         InsightsTypeInv, JobOK
<1>3. entry' \in Insights \cup {None} /\ Covers(entry)'
  <2>1. CASE entry' = entry
    BY <2>1 DEF InsightsInv, InsightsTypeInv, Covers
  <2>2. CASE entry' = icalls[c].seen
    BY <1>1, <2>2 DEF InsightCall, InsightCallOK, Covers
  <2> QED
    BY <2>1, <2>2 DEF LockInline, GenerateInline, StoreInline, UnlockInline, Stores
<1>4. ASSUME NEW at \in {"generate", "unlock", "fresh"},
             at = "generate" \/ icalls[c].at \in {"store", "unlock"},
             icalls[c].at # "readHash",
             icalls' = [icalls EXCEPT ![c].at = at]
      PROVE  InsightsInv'
  <2> DEFINE k == [icalls[c] EXCEPT !.at = at]
  <2>1. /\ k \in InsightCall /\ k.at = at /\ k.seen = icalls[c].seen /\ k.hash = icalls[c].hash
        /\ k.since = icalls[c].since
    BY <1>1, <1>4 DEF InsightCall
  <2>2. icalls' = [icalls EXCEPT ![c] = k]
    BY <1>4
  <2>3. InsightCallOK(k)
    <3> HIDE DEF k
    <3> QED
      BY <1>1, <1>4, <2>1 DEF InsightCallOK
  <2> HIDE DEF k
  <2> QED
    BY <1>2, <1>3, <2>1, <2>2, <2>3, CallStep
<1>5. CASE GenerateInline(c)
  <2>1. PICK got \in Generated :
          icalls' = [icalls EXCEPT ![c].at = "store", ![c].seen =
            [hash |-> icalls[c].hash, text |-> got.text, whole |-> got.whole]]
    BY <1>5 DEF GenerateInline
  <2> DEFINE i == [hash |-> icalls[c].hash, text |-> got.text, whole |-> got.whole]
             k == [icalls[c] EXCEPT !.at = "store", !.seen = i]
  <2>2. /\ icalls[c].hash \in Hashes /\ icalls[c].hash \in Int /\ icalls[c].hash <= counted
        /\ icalls[c].since \in Nat /\ icalls[c].since <= counted
        /\ icalls[c].hash = NoHash \/ icalls[c].since <= icalls[c].hash
    BY <1>1, <1>5 DEF GenerateInline, Waits, InsightCall, InsightCallOK, Hashes, NoHash
  <2>3. /\ i \in Insights /\ i.hash = icalls[c].hash /\ i # None
        /\ i.text = got.text /\ i.whole = got.whole
    <3>1. got.text \in Nat /\ got.whole \in BOOLEAN
      BY GeneratedEnough
    <3>2. i \in Insights
      BY <2>2, <3>1 DEF Insights
    <3> QED
      BY <3>2, InsightsAssumption
  <2>4. i.whole = TRUE => Enough(i.text, icalls[c].since) /\ Enough(i.text, i.hash)
    <3>1. got.whole = TRUE => \A n \in Int : n <= counted => Enough(got.text, n)
      BY GeneratedEnough
    <3> HIDE DEF i
    <3> QED
      BY <2>2, <2>3, <3>1
  <2>5. icalls' = [icalls EXCEPT ![c] = k]
    BY <2>1
  <2> HIDE DEF i
  <2>6. /\ k \in InsightCall /\ k.at = "store" /\ k.seen = i /\ k.hash = icalls[c].hash
        /\ k.since = icalls[c].since
    BY <1>1, <2>3 DEF InsightCall
  <2> HIDE DEF k
  <2>7. InsightCallOK(k)
    BY <2>2, <2>3, <2>4, <2>6 DEF InsightCallOK, Covers
  <2> QED
    BY <1>2, <1>3, <2>5, <2>6, <2>7, CallStep
<1> QED
  BY <1>4, <1>5 DEF LockInline, StoreInline, UnlockInline, Waits

LEMMA InsightStepOK ==
  ASSUME InsightsInv, NEW c \in Calls, InsightStep(c)
  PROVE  InsightsInv'
BY GetInsightsStep, ReadSecondStep, EndSteps, InlineSteps DEF InsightStep

----------------------------------------------------------------------------

LEMMA JobStepOK ==
  ASSUME InsightsInv, JobStep
  PROVE  InsightsInv'
<1>1. UNCHANGED <<text, counted, icalls>> /\ job # None
  BY DEF JobStep, ProcessJob, LockJob, GenerateJob, StoreJob, UnlockJob, JobFails, FailedJobGoes,
         Waits
<1>2. job \in Job /\ text \in Nat /\ counted \in 0..text /\ JobOK
  BY <1>1 DEF InsightsInv, InsightsTypeInv
<1>3. genLock' \in BOOLEAN
  BY DEF JobStep, ProcessJob, LockJob, GenerateJob, StoreJob, UnlockJob, JobFails, FailedJobGoes,
         SetsLock, InsightsInv, InsightsTypeInv
<1>4. job' \in Job \cup {None} /\ JobOK'
  <2>1. CASE job' = None
    BY <2>1 DEF JobOK
  <2>2. ASSUME NEW at \in {"waiting", "lock", "generate", "unlock", "failed"},
               NEW attempts \in Int, at # "unlock" \/ job.at = "store",
               job' = [job EXCEPT !.at = at, !.attempts = attempts]
        PROVE  job' \in Job \cup {None} /\ JobOK'
    BY <1>1, <1>2, <2>2 DEF Job, JobOK
  <2>3. CASE GenerateJob
    <3>1. PICK got \in Generated :
            job' = [job EXCEPT !.at = "store", !.text = got.text, !.whole = got.whole]
      BY <2>3 DEF GenerateJob
    <3>2. /\ got.text \in Nat /\ got.whole \in BOOLEAN
          /\ got.whole = TRUE => \A n \in Int : n <= counted => Enough(got.text, n)
      BY GeneratedEnough
    <3>3. /\ job' \in Job /\ job'.hash = job.hash /\ job'.text = got.text
          /\ job'.whole = got.whole
      BY <1>2, <3>1, <3>2 DEF Job
    <3>4. job.hash \in Int /\ job.hash <= counted
      BY <1>1, <1>2 DEF Job, Hashes, NoHash, JobOK
    <3> QED
      BY <1>1, <3>2, <3>3, <3>4 DEF JobOK
  <2>4. job = [job EXCEPT !.attempts = job.attempts] /\ job.attempts \in Int
    BY <1>2 DEF Job
  <2>5. CASE ProcessJob
    BY ZenonT(60), <1>2, <2>1, <2>2, <2>5 DEF ProcessJob, JobGoes, Job
  <2>6. CASE LockJob
    BY <1>2, <2>2, <2>6 DEF LockJob, JobGoes, Job
  <2>7. CASE StoreJob
    BY <1>2, <2>2, <2>7 DEF StoreJob, JobGoes, Job, Waits
  <2>8. CASE JobFails
    <3>1. PICK at \in {"waiting", "failed"} :
            job' = [job EXCEPT !.at = at, !.attempts = job.attempts - 1]
      BY <2>8 DEF JobFails
    <3>2. job.attempts - 1 \in Int
      BY <2>4
    <3> QED
      BY <2>2, <3>1, <3>2
  <2> QED
    BY <2>1, <2>3, <2>5, <2>6, <2>7, <2>8 DEF JobStep, UnlockJob, FailedJobGoes
<1>5. entry' \in Insights \cup {None} /\ Covers(entry)'
  <2>1. CASE entry' = entry
    BY <2>1 DEF InsightsInv, InsightsTypeInv, Covers
  <2>2. CASE StoreJob /\ entry' = [hash |-> job.hash, text |-> job.text, whole |-> job.whole]
    BY <1>2, <1>1, <2>2 DEF StoreJob, Waits, JobOK, Job, Insights, Covers
  <2> QED
    BY <2>1, <2>2 DEF JobStep, ProcessJob, LockJob, GenerateJob, StoreJob, UnlockJob, JobFails,
       FailedJobGoes, Stores
<1> QED
  BY <1>1, <1>3, <1>4, <1>5 DEF InsightsInv, InsightsTypeInv, InsightCallOK, Covers

LEMMA InsightsStepOK == InsightsInv /\ [InsightsNext]_insightVars => InsightsInv'
<1> SUFFICES ASSUME InsightsInv, [InsightsNext]_insightVars PROVE InsightsInv'
  OBVIOUS
<1>1. CASE UNCHANGED insightVars
  BY <1>1 DEF insightVars, InsightsInv, InsightsTypeInv, JobOK, InsightCallOK, Covers
<1>2. CASE InvalidateCache \/ LockExpires
  BY <1>2 DEF InvalidateCache, LockExpires, InsightsInv, InsightsTypeInv, JobOK, InsightCallOK, Covers
<1>3. CASE PostContent \/ CountContent
  <2>1. text' \in Nat /\ counted' \in 0..text' /\ counted \in Nat /\ counted' \in Nat
        /\ counted <= counted'
    BY <1>3 DEF PostContent, CountContent, InsightsInv, InsightsTypeInv
  <2>2. UNCHANGED <<entry, genLock, job, icalls>>
    BY <1>3 DEF PostContent, CountContent
  <2>3. InsightsTypeInv' /\ Covers(entry)'
    BY <2>1, <2>2 DEF InsightsInv, InsightsTypeInv, Covers, Enough
  <2>4. JobOK'
    BY <2>1, <2>2 DEF InsightsInv, InsightsTypeInv, Job, JobOK, Enough, Hashes, NoHash
  <2>5. ASSUME NEW c \in Calls PROVE InsightCallOK(icalls[c])'
    <3>1. icalls[c] # None => icalls[c] \in InsightCall
      BY DEF InsightsInv, InsightsTypeInv
    <3> QED
      BY <2>1, <2>2, <3>1
         DEF InsightsInv, InsightCallOK, Covers, InsightCall, Enough, Hashes, NoHash
  <2> QED
    BY <2>3, <2>4, <2>5 DEF InsightsInv
<1> QED
  BY <1>1, <1>2, <1>3, InsightStepOK, JobStepOK DEF InsightsNext

(* Insights served as cached or made on the spot cover every post counted  *)
(* when the call began or as many as are ever read, unless the posts could *)
(* not be read or the reply not be used: getInsights and generateInline,   *)
(* however calls, jobs and retries overlap and whatever Redis loses.       *)
THEOREM HitsCoverContent == InsightsSpec => []HitCoversContent
<1>1. InsightsInv => HitCoversContent
  <2> SUFFICES ASSUME InsightsInv, NEW c \in Calls, icalls[c] # None,
                      icalls[c].at \in {"hit", "fresh"}, icalls[c].seen.whole
               PROVE  \/ icalls[c].seen.text >= icalls[c].since
                      \/ icalls[c].seen.text >= ReadLimit
    BY DEF InsightsInv, InsightsTypeInv, HitCoversContent, RowIds
  <2>1. icalls[c] \in InsightCall /\ InsightCallOK(icalls[c])
    BY DEF InsightsInv, InsightsTypeInv
  <2>2. icalls[c].seen \in Insights
    BY <2>1 DEF InsightCall, InsightCallOK
  <2>3. icalls[c].seen.whole = TRUE
    BY <2>2 DEF Insights
  <2>4. Enough(icalls[c].seen.text, icalls[c].since)
    BY <2>1, <2>3 DEF InsightCallOK
  <2> QED
    BY <2>1, <2>2, <2>4, InsightsAssumption DEF InsightCall, Insights, Enough
<1> QED
  BY <1>1, InsightsInitOK, InsightsStepOK, PTL DEF InsightsSpec
=============================================================================
