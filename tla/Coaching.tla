------------------------------ MODULE Coaching ------------------------------
(***************************************************************************)
(* Coaching sessions: turns of one user that may overlap around the calls  *)
(* of the language model, the safety route, the tickets it opens, and the  *)
(* summary written in the background after a session has ended.            *)
(*                                                                         *)
(* Stages are numbered in the order of ORDER in grow.machine.ts.  A        *)
(* message is its stage, a goal or a summary only the fact that there is   *)
(* one.  Left out: engagements (focus, memory, consent), commitments,      *)
(* resources, feedback and everything that is only read for the prompt.    *)
(***************************************************************************)
EXTENDS Handlers, Integers, FiniteSets

CONSTANTS
  CSessions,   \* ids of coaching_sessions
  StageCount,  \* number of stages of the arc (six)
  Crises,      \* crisis categories the classifier may find
  MaxTurns     \* bound: client messages kept of one session

ASSUME StageAssumption == StageCount \in Nat \ {0}

VARIABLES
  csessions,   \* [CSessions -> None or [status, stage, goal]]
  said,        \* [CSessions -> the stages of the coach's messages]
  turns,       \* [CSessions -> number of client messages]
  events,      \* coaching_safety_events: <<session, category, action taken>>
  redirects,   \* redirect messages shown: <<session, category>>
  tickets,     \* coaching_support_tickets by reference: <<session, number>>
  ccalls,      \* [Calls -> None or the handler in progress]
  dropped      \* history: sessions of a handler that failed half way

coachingVars ==
  <<csessions, said, turns, events, redirects, tickets, ccalls, dropped>>

Stages == 1..StageCount
Goals  == {"provisional", "agreed"}
CSession == [status : {"active", "completed"}, stage : Stages, goal : Goals \cup {None}]

CoachingCall ==
  [at : {"greet", "reopen", "classify", "countTurns", "close", "recap", "summarise", "number"},
   on : CSessions, stage : Stages]
    \cup [at : {"openStage"}, on : CSessions, stage : Stages]
    \cup [at : {"crisisTurn", "logEvent", "redirect", "crisisEnd", "logFlag"},
          on : CSessions, stage : Stages, category : Crises]
    \cup [at : {"clientTurn", "model"}, on : CSessions, stage : Stages, first : BOOLEAN]
    \cup [at : {"goal", "coachTurn", "stage", "finish"}, on : CSessions, stage : Stages,
          next : Stages, goal : Goals \cup {None}, done : BOOLEAN]
    \cup [at : {"ticket"}, on : CSessions, number : Nat]

ASSUME CoachingAssumption == None \notin Goals \cup CSession \cup CoachingCall

CoachingInit ==
  /\ csessions = [s \in CSessions |-> None]
  /\ said = [s \in CSessions |-> {}]
  /\ turns = [s \in CSessions |-> 0]
  /\ events = {}
  /\ redirects = {}
  /\ tickets = {}
  /\ ccalls = [c \in Calls |-> None]
  /\ dropped = {}

ResolveStageFreely(current, requested) ==
  IF requested > current THEN requested ELSE current

(* resolveStage: the model may ask for any stage, and gets the next one or *)
(* the one it is in.                                                       *)
ResolveStage(current, requested) ==
  IF requested = current + 1 THEN requested ELSE current

Turn(c, at) == [at |-> at, on |-> ccalls[c].on, stage |-> ccalls[c].stage]

----------------------------------------------------------------------------
(* startSession: the row, then the opening message of the model            *)

StartSession(c) ==
  /\ ccalls[c] = None
  /\ \E s \in FreeIds(csessions) :
       /\ csessions' = [csessions EXCEPT ![s] =
                          [status |-> "active", stage |-> 1, goal |-> None]]
       /\ ccalls' = [ccalls EXCEPT ![c] = [at |-> "greet", on |-> s, stage |-> 1]]
  /\ UNCHANGED <<said, turns, events, redirects, tickets, dropped>>

OpeningMessage(c) ==
  /\ Waits(ccalls[c], "greet")
  /\ \E requested \in Stages :
       LET next == ResolveStage(1, requested)
       IN /\ said' = [said EXCEPT ![ccalls[c].on] = @ \cup {next}]
          /\ ccalls' = [ccalls EXCEPT ![c] =
               IF next = 1 THEN None
               ELSE [at |-> "openStage", on |-> @.on, stage |-> next]]
  /\ UNCHANGED <<csessions, turns, events, redirects, tickets, dropped>>

WriteOpeningStage(c) ==
  /\ Waits(ccalls[c], "openStage")
  /\ csessions' = [csessions EXCEPT ![ccalls[c].on].stage = ccalls[c].stage]
  /\ ccalls' = [ccalls EXCEPT ![c] = None]
  /\ UNCHANGED <<said, turns, events, redirects, tickets, dropped>>

----------------------------------------------------------------------------
(* processTurn                                                             *)

(* The session is read once: its stage is the stage of the whole turn.     *)
ProcessTurn(c, s) ==
  /\ ccalls[c] = None
  /\ csessions[s] # None
  /\ turns[s] < MaxTurns
  /\ ccalls' = [ccalls EXCEPT ![c] =
       [at |-> IF csessions[s].status = "active" THEN "classify" ELSE "reopen",
        on |-> s, stage |-> csessions[s].stage]]
  /\ UNCHANGED <<csessions, said, turns, events, redirects, tickets, dropped>>

(* reactivateSession: whatever the session was ended for.                  *)
Reactivate(c) ==
  /\ Waits(ccalls[c], "reopen")
  /\ csessions' = [csessions EXCEPT ![ccalls[c].on].status = "active"]
  /\ ccalls' = [ccalls EXCEPT ![c] = Turn(c, "classify")]
  /\ UNCHANGED <<said, turns, events, redirects, tickets, dropped>>

(* classify never throws: a message is fine, flagged or a crisis.          *)
Classify(c) ==
  /\ Waits(ccalls[c], "classify")
  /\ ccalls' \in
       {[ccalls EXCEPT ![c] = Turn(c, "countTurns")]}
         \cup {[ccalls EXCEPT ![c] = [at |-> at, on |-> @.on, stage |-> @.stage,
                                      category |-> category]]
                 : at \in {"crisisTurn", "logFlag"}, category \in Crises}
  /\ UNCHANGED <<csessions, said, turns, events, redirects, tickets, dropped>>

(* A milder find is only logged, and the turn goes on.                     *)
LogFlag(c) ==
  /\ Waits(ccalls[c], "logFlag")
  /\ events' = events \cup {<<ccalls[c].on, ccalls[c].category, "none">>}
  /\ ccalls' = [ccalls EXCEPT ![c] = Turn(c, "countTurns")]
  /\ UNCHANGED <<csessions, said, turns, redirects, tickets, dropped>>

CrisisTurnUnlogged(c) ==
  /\ Waits(ccalls[c], "crisisTurn")
  /\ turns' = [turns EXCEPT ![ccalls[c].on] = @ + 1]
  /\ ccalls' = [ccalls EXCEPT ![c].at = "redirect"]
  /\ UNCHANGED <<csessions, said, events, redirects, tickets, dropped>>

CrisisTurn(c) ==
  /\ Waits(ccalls[c], "crisisTurn")
  /\ turns' = [turns EXCEPT ![ccalls[c].on] = @ + 1]
  /\ ccalls' = [ccalls EXCEPT ![c].at = "logEvent"]
  /\ UNCHANGED <<csessions, said, events, redirects, tickets, dropped>>

LogSafetyEvent(c) ==
  /\ Waits(ccalls[c], "logEvent")
  /\ events' = events \cup {<<ccalls[c].on, ccalls[c].category, "redirect">>}
  /\ ccalls' = [ccalls EXCEPT ![c].at = "redirect"]
  /\ UNCHANGED <<csessions, said, turns, redirects, tickets, dropped>>

(* The redirect is the coach's message at the stage of the turn.           *)
Redirect(c) ==
  /\ Waits(ccalls[c], "redirect")
  /\ redirects' = redirects \cup {<<ccalls[c].on, ccalls[c].category>>}
  /\ said' = [said EXCEPT ![ccalls[c].on] = @ \cup {ccalls[c].stage}]
  /\ ccalls' = [ccalls EXCEPT ![c].at = "crisisEnd"]
  /\ UNCHANGED <<csessions, turns, events, tickets, dropped>>

CompleteCrisisUnticketed(c) ==
  /\ Waits(ccalls[c], "crisisEnd")
  /\ csessions' = [csessions EXCEPT ![ccalls[c].on].status = "completed"]
  /\ ccalls' = [ccalls EXCEPT ![c] = None]
  /\ UNCHANGED <<said, turns, events, redirects, tickets, dropped>>

CompleteCrisis(c) ==
  /\ Waits(ccalls[c], "crisisEnd")
  /\ csessions' = [csessions EXCEPT ![ccalls[c].on].status = "completed"]
  /\ ccalls' = [ccalls EXCEPT ![c] = Turn(c, "number")]
  /\ UNCHANGED <<said, turns, events, redirects, tickets, dropped>>

(* createSupportTicket: the reference is a hash of user and session and    *)
(* the number of tickets there are.                                        *)
NumberTicket(c) ==
  /\ Waits(ccalls[c], "number")
  /\ ccalls' = [ccalls EXCEPT ![c] =
       [at |-> "ticket", on |-> @.on, number |-> Cardinality(tickets) + 1]]
  /\ UNCHANGED <<csessions, said, turns, events, redirects, tickets, dropped>>

(* The column is unique: a reference already given fails the insert, which *)
(* is caught and only logged.                                              *)
CreateSupportTicket(c) ==
  /\ Waits(ccalls[c], "ticket")
  /\ tickets' = tickets \cup {<<ccalls[c].on, ccalls[c].number>>}
  /\ ccalls' = [ccalls EXCEPT ![c] = None]
  /\ UNCHANGED <<csessions, said, turns, events, redirects, dropped>>

(* countClientTurns: whether this is the first message of the client.      *)
CountClientTurns(c) ==
  /\ Waits(ccalls[c], "countTurns")
  /\ ccalls' = [ccalls EXCEPT ![c] =
       [at |-> "clientTurn", on |-> @.on, stage |-> @.stage, first |-> turns[@.on] = 0]]
  /\ UNCHANGED <<csessions, said, turns, events, redirects, tickets, dropped>>

ClientTurn(c) ==
  /\ Waits(ccalls[c], "clientTurn")
  /\ turns' = [turns EXCEPT ![ccalls[c].on] = @ + 1]
  /\ ccalls' = [ccalls EXCEPT ![c].at = "model"]
  /\ UNCHANGED <<csessions, said, events, redirects, tickets, dropped>>

(* The model answers with a stage, perhaps a goal, perhaps [DONE].  The    *)
(* session read has no goal column, so its goal is always missing and the  *)
(* first message is taken as the goal whenever the model names none.       *)
CoachTurn(c) ==
  /\ Waits(ccalls[c], "model")
  /\ \E requested \in Stages, named, done \in BOOLEAN :
       LET goal == IF named THEN "agreed"
                   ELSE IF ccalls[c].first THEN "provisional" ELSE None
       IN ccalls' = [ccalls EXCEPT ![c] =
            [at |-> IF goal = None THEN "coachTurn" ELSE "goal",
             on |-> @.on, stage |-> @.stage, next |-> ResolveStage(@.stage, requested),
             goal |-> goal, done |-> done]]
  /\ UNCHANGED <<csessions, said, turns, events, redirects, tickets, dropped>>

SetSessionGoalAndStage(c) ==
  /\ Waits(ccalls[c], "goal")
  /\ csessions' = [csessions EXCEPT ![ccalls[c].on].goal = ccalls[c].goal,
                                    ![ccalls[c].on].stage = ccalls[c].next]
  /\ ccalls' = [ccalls EXCEPT ![c].at = "coachTurn"]
  /\ UNCHANGED <<said, turns, events, redirects, tickets, dropped>>

SetSessionGoal(c) ==
  /\ Waits(ccalls[c], "goal")
  /\ csessions' = [csessions EXCEPT ![ccalls[c].on].goal = ccalls[c].goal]
  /\ ccalls' = [ccalls EXCEPT ![c].at = "coachTurn"]
  /\ UNCHANGED <<said, turns, events, redirects, tickets, dropped>>

AfterReply(k) == IF k.done THEN [k EXCEPT !.at = "finish"] ELSE None

CoachMessage(c) ==
  /\ Waits(ccalls[c], "coachTurn")
  /\ LET k == ccalls[c]
     IN /\ said' = [said EXCEPT ![k.on] = @ \cup {k.next}]
        /\ ccalls' = [ccalls EXCEPT ![c] =
             IF k.next # k.stage THEN [k EXCEPT !.at = "stage"] ELSE AfterReply(k)]
  /\ UNCHANGED <<csessions, turns, events, redirects, tickets, dropped>>

(* updateSessionStage: whatever the stage has become since it was read.    *)
UpdateSessionStage(c) ==
  /\ Waits(ccalls[c], "stage")
  /\ csessions' = [csessions EXCEPT ![ccalls[c].on].stage = ccalls[c].next]
  /\ ccalls' = [ccalls EXCEPT ![c] = AfterReply(@)]
  /\ UNCHANGED <<said, turns, events, redirects, tickets, dropped>>

----------------------------------------------------------------------------
(* The end of a session and the summary after it                           *)

EndSession(c, s) ==
  /\ ccalls[c] = None
  /\ csessions[s] # None
  /\ csessions[s].status = "active"
  /\ ccalls' = [ccalls EXCEPT ![c] =
                  [at |-> "close", on |-> s, stage |-> csessions[s].stage]]
  /\ UNCHANGED <<csessions, said, turns, events, redirects, tickets, dropped>>

(* completeSession at the user's wish or at [DONE]; the same handler then  *)
(* goes on in the background, the client already answered.                 *)
CompleteSessionRow(c) ==
  /\ \/ Waits(ccalls[c], "close")
     \/ Waits(ccalls[c], "finish")
  /\ csessions' = [csessions EXCEPT ![ccalls[c].on].status = "completed"]
  /\ ccalls' = [ccalls EXCEPT ![c] = Turn(c, "recap")]
  /\ UNCHANGED <<said, turns, events, redirects, tickets, dropped>>

(* consolidateInBackground: the transcript is read and sent to the model.  *)
ReadTranscript(c) ==
  /\ Waits(ccalls[c], "recap")
  /\ ccalls' = [ccalls EXCEPT ![c] =
       IF turns[@.on] = 0 /\ said[@.on] = {} THEN None ELSE Turn(c, "summarise")]
  /\ UNCHANGED <<csessions, said, turns, events, redirects, tickets, dropped>>

(* The summary is stored by completing the session a second time.          *)
StoreSummary(c) ==
  /\ Waits(ccalls[c], "summarise")
  /\ csessions' = [csessions EXCEPT ![ccalls[c].on].status = "completed"]
  /\ ccalls' = [ccalls EXCEPT ![c] = None]
  /\ UNCHANGED <<said, turns, events, redirects, tickets, dropped>>

(* The model or the database fails, or the process stops.                  *)
CoachingAbort(c) ==
  /\ ccalls[c] # None
  /\ ccalls' = [ccalls EXCEPT ![c] = None]
  /\ dropped' = dropped \cup {ccalls[c].on}
  /\ UNCHANGED <<csessions, said, turns, events, redirects, tickets>>

CoachingStep(c) ==
  \/ OpeningMessage(c)
  \/ WriteOpeningStage(c)
  \/ Reactivate(c)
  \/ Classify(c)
  \/ LogFlag(c)
  \/ CrisisTurn(c)
  \/ LogSafetyEvent(c)
  \/ Redirect(c)
  \/ CompleteCrisis(c)
  \/ NumberTicket(c)
  \/ CreateSupportTicket(c)
  \/ CountClientTurns(c)
  \/ ClientTurn(c)
  \/ CoachTurn(c)
  \/ SetSessionGoal(c)
  \/ CoachMessage(c)
  \/ UpdateSessionStage(c)
  \/ CompleteSessionRow(c)
  \/ ReadTranscript(c)
  \/ StoreSummary(c)

CoachingNext ==
  \E c \in Calls :
    \/ StartSession(c)
    \/ \E s \in CSessions : ProcessTurn(c, s) \/ EndSession(c, s)
    \/ CoachingStep(c)
    \/ CoachingAbort(c)

CoachingSpec == CoachingInit /\ [][CoachingNext]_coachingVars

----------------------------------------------------------------------------
(* Properties                                                              *)

CoachingTypeOK ==
  /\ csessions \in [CSessions -> CSession \cup {None}]
  /\ said \in [CSessions -> SUBSET Stages]
  /\ turns \in [CSessions -> Nat]
  /\ events \subseteq CSessions \X Crises \X {"redirect", "none"}
  /\ redirects \subseteq CSessions \X Crises
  /\ tickets \subseteq CSessions \X Nat
  /\ ccalls \in [Calls -> CoachingCall \cup {None}]
  /\ dropped \subseteq CSessions

(* The stage a session is stored at is one the coach has spoken from: the  *)
(* transcript never lags behind the stage, so a session reopened after a   *)
(* failure does not resume from a stage the user has not seen.             *)
StoredStageWasSpoken ==
  \A s \in RowIds(csessions) : csessions[s].stage \in said[s] \cup {1}

(* Nobody is turned away to crisis support without the safety event that   *)
(* the audit log and the resume test rely on, wherever the handler stops.  *)
RedirectIsLogged ==
  \A r \in redirects : <<r[1], r[2], "redirect">> \in events

(* Behind a redirect there is a ticket for the team, or a handler still on *)
(* its way to write it, or one that failed: two crises of one session at   *)
(* the same moment may share a reference and lose a ticket, not both.      *)
CrisisReachesTeam ==
  \A r \in redirects :
    \/ \E t \in tickets : t[1] = r[1]
    \/ \E c \in Calls : ccalls[c] # None /\ ccalls[c].on = r[1]
                          /\ ccalls[c].at \in {"crisisEnd", "number", "ticket"}
    \/ r[1] \in dropped

(* The furthest stage the coach has spoken from.                           *)
Furthest(s) ==
  IF csessions[s] = None THEN 0
  ELSE CHOOSE n \in said[s] \cup {1} : \A k \in said[s] \cup {1} : k <= n

Arc == INSTANCE GrowArc WITH Conversations <- CSessions, Stages <- StageCount,
                             furthest <- [s \in CSessions |-> Furthest(s)]

(* "It may never jump backwards or skip ahead": overlapping turns may pull *)
(* the stored stage back, but no message comes from a stage before every   *)
(* stage ahead of it has had one.                                          *)
ImplementsGrowArc == Arc!Spec
=============================================================================
