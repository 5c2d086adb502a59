------------------------------ MODULE Reports ------------------------------
(***************************************************************************)
(* A harassment report and its timeline: administrators move the report    *)
(* through its statuses, write who handles it and whom it is about, and    *)
(* each change is to leave an event in the timeline and a word to the      *)
(* reporter.  An update reads the report first, decides by what it read    *)
(* which events to write, and writes them after the report; their results  *)
(* are not looked at.                                                      *)
(*                                                                         *)
(* The history variable eventsKept says that no event was lost and no      *)
(* handler ended early.                                                    *)
(***************************************************************************)
EXTENDS Handlers, Integers, FiniteSets

CONSTANTS
  Admins,     \* administrators
  Accused     \* users a report may be about

Statuses == {"submitted", "under_review", "resolved", "declined"}

(* Of the body of an update, Unset says that a field is absent.            *)
Unset == "unset"

Report == [status : Statuses, assigned : Admins \cup {None}, about : Accused \cup {None},
           resolvedBy : Admins \cup {None}]

ReportCall ==
  [at : {"write", "statusEvent", "aboutEvent", "assignedEvent", "tell"}, admin : Admins,
   status : Statuses \cup {Unset}, about : Accused \cup {None, Unset},
   assigned : Admins \cup {None, Unset}, seen : Report]

ASSUME ReportsAssumption ==
  /\ None \notin Report \cup ReportCall
  /\ Unset \notin Admins

VARIABLES
  report,      \* harassment_reports: None or the row
  timeline,    \* report_timeline_events: a set of events
  told,        \* notifications to the reporter: a set of statuses
  rcalls,      \* [Calls -> None or the update in progress]
  held,        \* history: the statuses the report has had since it was submitted
  eventsKept   \* history, see above

reportVars == <<report, timeline, told, rcalls, held, eventsKept>>

ReportsInit ==
  /\ report = None
  /\ timeline = {}
  /\ told = {}
  /\ rcalls = [c \in Calls |-> None]
  /\ held = {}
  /\ eventsKept = TRUE

REnds(c) == rcalls' = [rcalls EXCEPT ![c] = None]

(* createReport writes no event.                                           *)
CreateReport(about) ==
  /\ report = None
  /\ report' = [status |-> "submitted", assigned |-> None, about |-> about, resolvedBy |-> None]
  /\ UNCHANGED <<timeline, told, rcalls, held, eventsKept>>

----------------------------------------------------------------------------
(* updateReport reads the row.                                             *)
UpdateReport(c, admin, status, about, assigned) ==
  /\ rcalls[c] = None
  /\ report # None
  /\ rcalls' = [rcalls EXCEPT ![c] =
       [at |-> "write", admin |-> admin, status |-> status, about |-> about,
        assigned |-> assigned, seen |-> report]]
  /\ UNCHANGED <<report, timeline, told, held, eventsKept>>

IfSet(new, old) == IF new = Unset THEN old ELSE new

WriteReport(c) ==
  /\ Waits(rcalls[c], "write")
  /\ LET k == rcalls[c]
     IN /\ report' = [status     |-> IfSet(k.status, report.status),
                      assigned   |-> IfSet(k.assigned, report.assigned),
                      about      |-> IfSet(k.about, report.about),
                      resolvedBy |-> IF k.status = "resolved" THEN k.admin ELSE report.resolvedBy]
        /\ held' = IF k.status = Unset THEN held ELSE held \cup {k.status}
  /\ rcalls' = [rcalls EXCEPT ![c].at = "statusEvent"]
  /\ UNCHANGED <<timeline, told, eventsKept>>

(* An event is written, or refused without anybody noticing.               *)
Logs(event) ==
  \/ timeline' = timeline \cup {event} /\ UNCHANGED eventsKept
  \/ UNCHANGED timeline /\ eventsKept' = FALSE

LogsWhen(wanted, event) ==
  IF wanted THEN Logs(event) ELSE UNCHANGED <<timeline, eventsKept>>

StatusEventReread(c) ==
  /\ Waits(rcalls[c], "statusEvent")
  /\ LogsWhen(rcalls[c].status # Unset /\ rcalls[c].status # report.status,
              <<"status", rcalls[c].status>>)
  /\ rcalls' = [rcalls EXCEPT ![c].at = "aboutEvent"]
  /\ UNCHANGED <<report, told, held>>

(* Compared with the status that was read before the update.               *)
StatusEvent(c) ==
  /\ Waits(rcalls[c], "statusEvent")
  /\ LogsWhen(rcalls[c].status # Unset /\ rcalls[c].status # rcalls[c].seen.status,
              <<"status", rcalls[c].status>>)
  /\ rcalls' = [rcalls EXCEPT ![c].at = "aboutEvent"]
  /\ UNCHANGED <<report, told, held>>

AboutEvent(c) ==
  /\ Waits(rcalls[c], "aboutEvent")
  /\ LET k == rcalls[c]
     IN LogsWhen(k.about # Unset /\ k.about # k.seen.about,
                 <<"about", IF k.about = None THEN "removed" ELSE "updated">>)
  /\ rcalls' = [rcalls EXCEPT ![c].at = "assignedEvent"]
  /\ UNCHANGED <<report, told, held>>

(* The event names who assigned the report, not to whom.                   *)
AssignedEvent(c) ==
  /\ Waits(rcalls[c], "assignedEvent")
  /\ LogsWhen(rcalls[c].assigned \notin {Unset, None}, <<"assigned", rcalls[c].admin>>)
  /\ rcalls' = [rcalls EXCEPT ![c].at = "tell"]
  /\ UNCHANGED <<report, told, held>>

(* The reporter is told whenever the body names a status, changed or not.  *)
TellReporter(c) ==
  /\ Waits(rcalls[c], "tell")
  /\ IF rcalls[c].status = Unset
     THEN UNCHANGED <<told, eventsKept>>
     ELSE \/ told' = told \cup {rcalls[c].status} /\ UNCHANGED eventsKept
          \/ UNCHANGED told /\ eventsKept' = FALSE
  /\ REnds(c)
  /\ UNCHANGED <<report, timeline, held>>

(* assignToSelf reads nothing first.                                       *)
AssignToSelf(c, admin) ==
  /\ rcalls[c] = None
  /\ report # None
  /\ report' = [report EXCEPT !.assigned = admin]
  /\ rcalls' = [rcalls EXCEPT ![c] =
       [at |-> "assignedEvent", admin |-> admin, status |-> Unset, about |-> Unset,
        assigned |-> admin, seen |-> report]]
  /\ UNCHANGED <<timeline, told, held, eventsKept>>

ReportAbort(c) ==
  /\ rcalls[c] # None
  /\ REnds(c)
  /\ eventsKept' = FALSE
  /\ UNCHANGED <<report, timeline, told, held>>

ReportStep(c) ==
  \/ \E admin \in Admins :
       \/ AssignToSelf(c, admin)
       \/ \E status \in Statuses \cup {Unset}, about \in Accused \cup {None, Unset},
             assigned \in Admins \cup {None, Unset} :
            UpdateReport(c, admin, status, about, assigned)
  \/ WriteReport(c) \/ StatusEvent(c) \/ AboutEvent(c) \/ AssignedEvent(c) \/ TellReporter(c)
  \/ ReportAbort(c)

ReportsNext ==
  \/ \E about \in Accused \cup {None} : CreateReport(about)
  \/ \E c \in Calls : ReportStep(c)

ReportsSpec == ReportsInit /\ [][ReportsNext]_reportVars

----------------------------------------------------------------------------
(* With no update in progress and none of their inserts lost, the timeline *)
(* names every status the report was moved to, a report that is assigned   *)
(* has an event of it, and the reporter was told of each status, although  *)
(* updates by two administrators decide by rows read before each other's   *)
(* writes (updateReport in admin-reports.service.ts).  A report moved back *)
(* to submitted may leave no event, and the newest event need not name the *)
(* present status.                                                         *)
TimelineNamesEveryStatus ==
  eventsKept /\ RowIds(rcalls) = {} =>
    /\ held \subseteq told
    /\ \A status \in held \ {"submitted"} : <<"status", status>> \in timeline
    /\ report # None /\ report.assigned # None =>
         \E admin \in Admins : <<"assigned", admin>> \in timeline
=============================================================================
