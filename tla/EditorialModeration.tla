------------------------ MODULE EditorialModeration ------------------------
(***************************************************************************)
(* Moderation of user content, end to end: the BullMQ worker that asks a   *)
(* language model for a verdict (EditorialProcessor), the ten-minute sweep *)
(* that re-enqueues what the queue missed (ModerationSweepJobs), user      *)
(* flags (ContentSafetyService), the review queue and the direct actions   *)
(* of the moderators (ModerationReviewService, AdminModerationService).    *)
(*                                                                         *)
(* All of them write the same three tables with one autocommitted          *)
(* statement per await and no transaction, so each statement is an action  *)
(* here and any two handlers may interleave between statements.  The query *)
(* builder returns an error instead of throwing; a caller that does not    *)
(* look at it goes on as if the statement had worked.  The parameter ok of *)
(* an action says whether its statement did.                               *)
(***************************************************************************)
EXTENDS Enforcement, FiniteSets

CONSTANTS
  Content,         \* content items: posts, topics, comments, nooks, messages
  Workers,         \* worker processes consuming the 'moderation' queue
  Staff,           \* moderators and administrators, one call at a time each
  Reporters,       \* users who flag content, one call at a time each
  Mode,            \* MODERATION_MODE
  Verdicts,        \* the verdicts the language model may return
  HasApiKey,       \* TOGETHER_API_KEY is configured
  StaffAuthored,   \* items whose author is admin, super_admin or moderator
  Nooks,           \* items that are nooks
  NookMessages,    \* items that are messages in a nook
  ShortContent,    \* items under MIN_CONTENT_LENGTH without a link
  Flaggable,       \* items of a type in autoHideContent's tableMap
  Referral,        \* items of a table the sweep does not test is_hidden of
  MaxPerType,      \* rows the sweep's query returns at most
  LookbackSweeps,  \* sweeps before an item is older than the lookback
  MaxFaults,       \* bound: statements and enqueues that fail
  MaxCrashes,      \* bound: processes that die in the middle of a handler
  MaxStalls,       \* bound: active jobs whose lock expires
  MaxPurges        \* bound: finished jobs dropped from the queue's history

ASSUME ConstantsAssumption ==
  /\ Mode \in Modes
  /\ Verdicts \subseteq Verdict
  /\ HasApiKey \in BOOLEAN
  /\ IsFiniteSet(Reporters)
  /\ {MaxPerType, LookbackSweeps, MaxFaults, MaxCrashes, MaxStalls, MaxPurges}
       \subseteq Nat

VARIABLES
  posted,         \* rows of the content tables
  older,          \* older[c]: the items posted before c (created_at order)
  hidden,         \* is_hidden of each row
  audit,          \* content_moderation, UNIQUE (content_type, content_id)
  review,         \* moderation_review_queue, UNIQUE (content_type, content_id)
  flags,          \* content_flags: who flagged each item
  disagreements,  \* items with a row in moderation_disagreements
  notices,        \* notices[c]: kinds of notice sent to c's author
  job,            \* the BullMQ job '<type>-<id>' of each item
  window,         \* sweeps for which the item is still inside the lookback
  sweepFound,     \* rows of the running sweep's query not enqueued yet
  worker,         \* what each worker is doing
  staff,          \* what each staff member's call is doing
  reporter,       \* what each reporter's call is doing
  budget,         \* faults, crashes, stalls and purges used up
  judged,         \* history: verdicts the model returned for each item
  ordered,        \* history: items a staff member decided to hide or delete
  hiders          \* history: who has hidden each item

dbVars    == <<posted, older, hidden, audit, review, flags, disagreements,
               notices>>
queueVars == <<job, window, sweepFound>>
actors    == <<worker, staff, reporter>>
history   == <<judged, ordered, hiders>>
vars      == <<dbVars, queueVars, actors, budget, history>>

----------------------------------------------------------------------------
(* Rows and process states                                                 *)

NoRow == [row |-> FALSE]

AuditRow  == [row : {TRUE}, moderation_status : AiStatuses \cup {"visible"},
              moderated_by : {"ai", "human"}]
ReviewRow == [row : {TRUE}, status : {"pending", "resolved"},
              current_state : {"visible", "hidden"}, priority : Priorities,
              reason : Reasons, resolution : {"none", "confirm", "reverse", "hide"}]

Audit(status, by) ==
  [row |-> TRUE, moderation_status |-> status, moderated_by |-> by]

NoticeKinds == {"content_hidden", "content_removed", "safety_resources"}

NoItem  == "no item"
NoOwner == "no owner"
NoJob   == [state |-> "none", owner |-> NoOwner, stalled |-> FALSE]
Waiting == [state |-> "waiting", owner |-> NoOwner, stalled |-> FALSE]
Job     == [state : {"none", "waiting", "active", "completed", "failed"},
            owner : Workers \cup {NoOwner}, stalled : BOOLEAN]

NoPlan == Result("allow", "allowed", FALSE, "low", "")
IdleWorker == [pc |-> "idle", item |-> NoItem, plan |-> NoPlan, found |-> FALSE]
WorkerState ==
  [pc : {"idle", "overrides", "judge", "auditLookup", "auditWrite", "hide",
         "reviewLookup", "reviewWrite", "finish"},
   item : Content \cup {NoItem}, plan : EnforcementResult, found : BOOLEAN]

IdleStaff == [pc |-> "idle", item |-> NoItem, act |-> "none", found |-> FALSE]
ReviewActs == {"reverse", "confirm", "hide"}
AdminActs  == {"hideContent", "restoreContent", "deleteContent"}
StaffState ==
  [pc : {"idle", "resolveQueue", "resolveSource", "resolveAudit", "resolveLog",
         "upsert", "source"},
   item : Content \cup {NoItem}, act : ReviewActs \cup AdminActs \cup {"none"}, found : BOOLEAN]

IdleReporter == [pc |-> "idle", item |-> NoItem]
ReporterState == [pc : {"idle", "count", "hide"}, item : Content \cup {NoItem}]

Budget == [faults : Nat, crashes : Nat, stalls : Nat, purges : Nat]

Init ==
  /\ posted = {} /\ older = [c \in Content |-> {}]
  /\ hidden = [c \in Content |-> FALSE]
  /\ audit = [c \in Content |-> NoRow]
  /\ review = [c \in Content |-> NoRow]
  /\ flags = [c \in Content |-> {}]
  /\ disagreements = {}
  /\ notices = [c \in Content |-> {}]
  /\ job = [c \in Content |-> NoJob]
  /\ window = [c \in Content |-> 0]
  /\ sweepFound = {}
  /\ worker = [w \in Workers |-> IdleWorker]
  /\ staff = [s \in Staff |-> IdleStaff]
  /\ reporter = [r \in Reporters |-> IdleReporter]
  /\ budget = [faults |-> 0, crashes |-> 0, stalls |-> 0, purges |-> 0]
  /\ judged = [c \in Content |-> {}]
  /\ ordered = {}
  /\ hiders = [c \in Content |-> {}]

(* n statements of the step fail.                                          *)
Failing(n) == /\ budget.faults + n <= MaxFaults
              /\ budget' = [budget EXCEPT !.faults = @ + n]

Statement(ok) == Failing(IF ok THEN 0 ELSE 1)

SetHidden(c, value, who) ==
  /\ hidden' = [hidden EXCEPT ![c] = value]
  /\ hiders' = [hiders EXCEPT ![c] = IF value THEN @ \cup {who} ELSE @]

----------------------------------------------------------------------------
(* Posting, and the queue                                                  *)

(* Insert the row, then moderationQueue.add(...) without awaiting it: a    *)
(* rejected add is logged and forgotten.                                   *)
Post(c, enqueued) ==
  /\ c \notin posted
  /\ posted' = posted \cup {c}
  /\ older' = [older EXCEPT ![c] = posted]
  /\ window' = [window EXCEPT ![c] = LookbackSweeps]
  /\ job' = IF enqueued THEN [job EXCEPT ![c] = Waiting] ELSE job
  /\ UNCHANGED <<hidden, audit, review, flags, disagreements, notices,
                 sweepFound, actors, budget, history>>

(* BullMQ: a worker takes a waiting job and locks it.                      *)
Fetch(w, c) ==
  /\ worker[w].pc = "idle"
  /\ job[c].state = "waiting"
  /\ job' = [job EXCEPT ![c] = [@ EXCEPT !.state = "active", !.owner = w]]
  /\ worker' = [worker EXCEPT ![w] = [IdleWorker EXCEPT !.pc = "overrides",
                                                        !.item = c]]
  /\ UNCHANGED <<dbVars, window, sweepFound, staff, reporter, budget, history>>

(* The worker that held the job is gone or is busy with something else.    *)
Abandoned(c) == \A w \in Workers :
                  ~(job[c].owner = w /\ worker[w].item = c)

(* BullMQ: the lock of an active job expires, because its worker died or   *)
(* could not renew it in time.  The first time the job goes back to        *)
(* waiting, the second time (maxStalledCount 1) it fails.  The worker, if  *)
(* it lives, is not told and carries on.                                   *)
Stall(c) ==
  /\ job[c].state = "active"
  /\ IF Abandoned(c) THEN UNCHANGED budget
     ELSE /\ budget.stalls < MaxStalls
          /\ budget' = [budget EXCEPT !.stalls = @ + 1]
  /\ job' = [job EXCEPT ![c] = [state |-> IF @.stalled THEN "failed" ELSE "waiting",
                                owner |-> NoOwner, stalled |-> TRUE]]
  /\ UNCHANGED <<dbVars, window, sweepFound, actors, history>>

(* BullMQ: removeOnComplete 100 and removeOnFail 50 drop a finished job    *)
(* once enough others have finished after it.                              *)
Purge(c) ==
  /\ job[c].state \in {"completed", "failed"}
  /\ budget.purges < MaxPurges
  /\ budget' = [budget EXCEPT !.purges = @ + 1]
  /\ job' = [job EXCEPT ![c] = NoJob]
  /\ UNCHANGED <<dbVars, window, sweepFound, actors, history>>

----------------------------------------------------------------------------
(* The worker                                                              *)

Step(w, pc, next) ==
  /\ worker[w].pc = pc
  /\ worker' = [worker EXCEPT ![w].pc = next]

(* checkHardOverrides.  A read that fails looks like a read of no row.     *)
(* Whether a nook expires within the hour depends on when it is asked.     *)
CheckOverrides(w, okRole, okAudit) ==
  LET c == worker[w].item
      isStaff  == okRole /\ c \in StaffAuthored
      actioned == /\ okAudit
                  /\ audit[c].row
                  /\ audit[c].moderation_status \in {"hidden", "removed"}
  IN /\ worker[w].pc = "overrides"
     /\ Failing((IF okRole THEN 0 ELSE 1) + (IF okAudit THEN 0 ELSE 1))
     /\ \E expiring \in IF c \in Nooks \cup NookMessages
                        THEN BOOLEAN ELSE {FALSE} :
          worker' = [worker EXCEPT ![w].pc =
                       IF isStaff \/ actioned \/ expiring
                       THEN "auditLookup" ELSE "judge"]
     /\ UNCHANGED <<dbVars, queueVars, staff, reporter, history>>

(* The rest of process up to the audit row decides on a plan.              *)
Plan(w, plan) ==
  /\ worker[w].pc = "judge"
  /\ worker' = [worker EXCEPT ![w] = [@ EXCEPT !.pc = "auditLookup",
                                                 !.plan = plan]]
  /\ UNCHANGED <<dbVars, queueVars, staff, reporter, ordered, hiders>>

(* loadSubject throws when the row is gone or its read fails; process      *)
(* catches it and still writes an audit row.                               *)
BuildFails(w) ==
  /\ Plan(w, Result("allow", "pending_review", FALSE, "low", ""))
  /\ UNCHANGED <<budget, judged>>

SkipShort(w) ==
  /\ worker[w].item \in ShortContent
  /\ Plan(w, NoPlan)
  /\ UNCHANGED <<budget, judged>>

NotConfigured(w) ==
  /\ worker[w].item \notin ShortContent
  /\ ~HasApiKey
  /\ Plan(w, NoPlan)
  /\ UNCHANGED <<budget, judged>>

(* fetch times out, the API answers an error, or the reply is not JSON.    *)
JudgeFails(w) ==
  /\ worker[w].item \notin ShortContent
  /\ HasApiKey
  /\ Plan(w, Result("allow", "pending_review", TRUE, "normal", "system_error"))
  /\ UNCHANGED <<budget, judged>>

Judge(w, v) ==
  /\ worker[w].item \notin ShortContent
  /\ HasApiKey
  /\ Plan(w, Decide(Mode, v))
  /\ judged' = [judged EXCEPT ![worker[w].item] = @ \cup {v}]
  /\ UNCHANGED budget

(* writeAuditRow: select, then update or insert.                           *)
AuditLookup(w, ok) ==
  /\ worker[w].pc = "auditLookup"
  /\ Statement(ok)
  /\ worker' = [worker EXCEPT ![w] =
                  [@ EXCEPT !.pc = "auditWrite",
                            !.found = ok /\ audit[worker[w].item].row]]
  /\ UNCHANGED <<dbVars, queueVars, staff, reporter, history>>

(* Mutant: only content left visible is queued for review.                 *)
AfterHideNoReview(plan) ==
  IF plan.needsReview /\ plan.action = "allow" THEN "reviewLookup" ELSE "finish"

AfterHide(plan) == IF plan.needsReview THEN "reviewLookup" ELSE "finish"

(* Mutant: hides on the recorded status instead of the action.             *)
AfterAuditByStatus(plan) ==
  IF plan.moderationStatus # "allowed" THEN "hide" ELSE AfterHide(plan)

AfterAudit(plan) == IF plan.action \in {"hide", "remove"}
                    THEN "hide" ELSE AfterHide(plan)

(* An insert that meets a row violates the unique index; the error is not  *)
(* looked at.                                                              *)
AuditWrite(w, ok) ==
  LET c == worker[w].item
      effective == ok /\ (worker[w].found \/ ~audit[c].row)
  IN /\ Step(w, "auditWrite", AfterAudit(worker[w].plan))
     /\ Statement(ok)
     /\ audit' = IF effective
                 THEN [audit EXCEPT ![c] =
                         Audit(worker[w].plan.moderationStatus, "ai")]
                 ELSE audit
     /\ UNCHANGED <<posted, older, hidden, review, flags, disagreements,
                    notices, queueVars, staff, reporter, history>>

(* updateSourceHidden(true), the caches, and notifyAuthor not awaited.     *)
HideSource(w, ok) ==
  LET c == worker[w].item
      kind == IF worker[w].plan.action = "remove"
              THEN "content_removed" ELSE "content_hidden"
  IN /\ Step(w, "hide", AfterHide(worker[w].plan))
     /\ Statement(ok)
     /\ IF ok THEN SetHidden(c, TRUE, "ai") ELSE UNCHANGED <<hidden, hiders>>
     /\ notices' = [notices EXCEPT ![c] = @ \cup {kind}]
     /\ UNCHANGED <<posted, older, audit, review, flags, disagreements,
                    queueVars, staff, reporter, judged, ordered>>

(* insertReviewQueue: select, then update by id or insert.                 *)
ReviewLookup(w, ok) ==
  /\ worker[w].pc = "reviewLookup"
  /\ Statement(ok)
  /\ worker' = [worker EXCEPT ![w] =
                  [@ EXCEPT !.pc = "reviewWrite",
                            !.found = ok /\ review[worker[w].item].row]]
  /\ UNCHANGED <<dbVars, queueVars, staff, reporter, history>>

(* Mutant: the moderation status is stored as the current state.           *)
PendingRowByStatus(plan) ==
  [row |-> TRUE, status |-> "pending", current_state |-> plan.moderationStatus,
   priority |-> plan.reviewPriority, reason |-> plan.reviewReason,
   resolution |-> "none"]

PendingRow(plan) ==
  [row |-> TRUE, status |-> "pending",
   current_state |-> IF plan.action = "allow" THEN "visible" ELSE "hidden",
   priority |-> plan.reviewPriority, reason |-> plan.reviewReason,
   resolution |-> "none"]

ReviewWrite(w, ok) ==
  LET c == worker[w].item
      effective == ok /\ (worker[w].found \/ ~review[c].row)
  IN /\ Step(w, "reviewWrite", "finish")
     /\ Statement(ok)
     /\ review' = IF effective
                  THEN [review EXCEPT ![c] = PendingRow(worker[w].plan)]
                  ELSE review
     /\ UNCHANGED <<posted, older, hidden, audit, flags, disagreements,
                    notices, queueVars, staff, reporter, history>>

(* Mutant: a worker that lost its lock sends nothing.                      *)
FinishOwned(w) ==
  LET c == worker[w].item
      owns == job[c].state = "active" /\ job[c].owner = w
  IN /\ worker[w].pc = "finish"
     /\ notices' = IF worker[w].plan.sendSafetyDm /\ owns
                   THEN [notices EXCEPT ![c] = @ \cup {"safety_resources"}]
                   ELSE notices
     /\ job' = IF owns
               THEN [job EXCEPT ![c] = [@ EXCEPT !.state = "completed",
                                                !.owner = NoOwner]]
               ELSE job
     /\ worker' = [worker EXCEPT ![w] = IdleWorker]
     /\ UNCHANGED <<posted, older, hidden, audit, review, flags, disagreements,
                    window, sweepFound, staff, reporter, budget, history>>

(* sendSafetyResources not awaited; process returns and BullMQ completes   *)
(* the job if this worker still holds its lock.                            *)
Finish(w) ==
  LET c == worker[w].item
  IN /\ worker[w].pc = "finish"
     /\ notices' = IF worker[w].plan.sendSafetyDm
                   THEN [notices EXCEPT ![c] = @ \cup {"safety_resources"}]
                   ELSE notices
     /\ job' = IF job[c].state = "active" /\ job[c].owner = w
               THEN [job EXCEPT ![c] = [@ EXCEPT !.state = "completed",
                                                !.owner = NoOwner]]
               ELSE job
     /\ worker' = [worker EXCEPT ![w] = IdleWorker]
     /\ UNCHANGED <<posted, older, hidden, audit, review, flags, disagreements,
                    window, sweepFound, staff, reporter, budget, history>>

WorkerStep(w) ==
  \/ \E okRole, okAudit \in BOOLEAN : CheckOverrides(w, okRole, okAudit)
  \/ BuildFails(w) \/ SkipShort(w) \/ NotConfigured(w) \/ JudgeFails(w)
  \/ \E v \in Verdicts : Judge(w, v)
  \/ \E ok \in BOOLEAN : \/ AuditLookup(w, ok) \/ AuditWrite(w, ok)
                         \/ HideSource(w, ok)
                         \/ ReviewLookup(w, ok) \/ ReviewWrite(w, ok)
  \/ Finish(w)

----------------------------------------------------------------------------
(* The sweep, every ten minutes in the API process                         *)

(* Mutant: the lookback ends one sweep early.                              *)
UnmoderatedShort(c) == /\ c \in posted /\ window[c] > 1
                       /\ ~audit[c].row
                       /\ c \in Referral \/ ~hidden[c]

Unmoderated(c) == /\ c \in posted /\ window[c] > 0
                  /\ ~audit[c].row
                  /\ c \in Referral \/ ~hidden[c]

(* findUnmoderated: ORDER BY created_at DESC LIMIT.  Nooks in their last   *)
(* hour are left out.                                                      *)
SweepQuery ==
  /\ sweepFound = {}
  /\ \E c \in posted : window[c] > 0
  /\ \E expiring \in SUBSET Nooks :
       LET rows == {c \in Content \ expiring : Unmoderated(c)}
       IN sweepFound' = {c \in rows : Cardinality({d \in rows : c \in older[d]})
                                        < MaxPerType}
  /\ window' = [c \in Content |-> IF window[c] > 0 THEN window[c] - 1 ELSE 0]
  /\ UNCHANGED <<dbVars, job, actors, budget, history>>

(* moderationQueue.add with the same jobId: BullMQ ignores it while any    *)
(* job of that id exists, finished ones that are still retained included.  *)
SweepAdd(c, ok) ==
  /\ c \in sweepFound
  /\ sweepFound' = sweepFound \ {c}
  /\ Statement(ok)
  /\ job' = IF ok /\ job[c].state = "none" THEN [job EXCEPT ![c] = Waiting]
            ELSE job
  /\ UNCHANGED <<dbVars, window, actors, history>>

----------------------------------------------------------------------------
(* Moderators: the review queue                                            *)

StaffMoves(s, pc, next) ==
  /\ staff[s].pc = pc
  /\ staff' = [staff EXCEPT ![s] = IF next = "idle" THEN IdleStaff
                                   ELSE [@ EXCEPT !.pc = next]]

(* resolveItem: the row is read once and its current_state looked at; its  *)
(* status is not.                                                          *)
ResolveRead(s, c, act) ==
  /\ staff[s].pc = "idle"
  /\ review[c].row
  /\ review[c].current_state = IF act = "reverse" THEN "hidden" ELSE "visible"
  /\ staff' = [staff EXCEPT ![s] = [IdleStaff EXCEPT !.pc = "resolveQueue",
                                                     !.item = c, !.act = act]]
  /\ ordered' = IF act = "hide" THEN ordered \cup {c} ELSE ordered
  /\ UNCHANGED <<dbVars, queueVars, worker, reporter, budget, judged, hiders>>

(* Mutant: confirming writes is_hidden too.                                *)
ResolveQueueAlways(s, ok) ==
  LET c == staff[s].item
  IN /\ StaffMoves(s, "resolveQueue", "resolveSource")
     /\ Statement(ok)
     /\ review' = IF ok THEN [review EXCEPT ![c] =
                             [@ EXCEPT !.status = "resolved",
                                       !.resolution = staff[s].act]]
                  ELSE review
     /\ UNCHANGED <<posted, older, hidden, audit, flags, disagreements, notices,
                    queueVars, worker, reporter, history>>

ResolveQueue(s, ok) ==
  LET c == staff[s].item
  IN /\ StaffMoves(s, "resolveQueue", IF staff[s].act = "confirm"
                                      THEN "resolveAudit" ELSE "resolveSource")
     /\ Statement(ok)
     /\ review' = IF ok THEN [review EXCEPT ![c] =
                             [@ EXCEPT !.status = "resolved",
                                       !.resolution = staff[s].act]]
                  ELSE review
     /\ UNCHANGED <<posted, older, hidden, audit, flags, disagreements, notices,
                    queueVars, worker, reporter, history>>

(* restoreContent or hideContent on the source table.                      *)
ResolveSource(s, ok) ==
  /\ StaffMoves(s, "resolveSource", "resolveAudit")
  /\ Statement(ok)
  /\ IF ok THEN SetHidden(staff[s].item, staff[s].act = "hide", "staff")
     ELSE UNCHANGED <<hidden, hiders>>
  /\ UNCHANGED <<posted, older, audit, review, flags, disagreements, notices,
                 queueVars, worker, reporter, judged, ordered>>

(* Mutant: the disagreement is logged for hides instead of reversals.      *)
ResolveAuditLogsHide(s, ok) ==
  LET c == staff[s].item
      status == IF staff[s].act = "reverse" THEN "visible" ELSE "hidden"
  IN /\ StaffMoves(s, "resolveAudit",
                   IF staff[s].act = "hide" THEN "resolveLog" ELSE "idle")
     /\ Statement(ok)
     /\ audit' = IF ok /\ audit[c].row
                 THEN [audit EXCEPT ![c] = Audit(status, "human")] ELSE audit
     /\ UNCHANGED <<posted, older, hidden, review, flags, disagreements, notices,
                    queueVars, worker, reporter, history>>

(* An update of no row is no error.                                        *)
ResolveAudit(s, ok) ==
  LET c == staff[s].item
      status == CASE staff[s].act = "reverse" -> "visible"
                  [] staff[s].act = "hide"    -> "hidden"
                  [] OTHER                    -> audit[c].moderation_status
  IN /\ StaffMoves(s, "resolveAudit",
                   IF staff[s].act = "reverse" THEN "resolveLog" ELSE "idle")
     /\ Statement(ok)
     /\ audit' = IF ok /\ audit[c].row
                 THEN [audit EXCEPT ![c] = Audit(status, "human")] ELSE audit
     /\ UNCHANGED <<posted, older, hidden, review, flags, disagreements, notices,
                    queueVars, worker, reporter, history>>

ResolveLog(s, ok) ==
  /\ StaffMoves(s, "resolveLog", "idle")
  /\ Statement(ok)
  /\ disagreements' = IF ok THEN disagreements \cup {staff[s].item}
                      ELSE disagreements
  /\ UNCHANGED <<posted, older, hidden, audit, review, flags, notices,
                 queueVars, worker, reporter, history>>

----------------------------------------------------------------------------
(* Administrators: direct actions on any item, which the review queue is   *)
(* not told of                                                             *)

AdminStatus(act) == CASE act = "hideContent"    -> "hidden"
                      [] act = "restoreContent" -> "visible"
                      [] act = "deleteContent"  -> "removed"

AdminLookup(s, c, act, ok) ==
  /\ staff[s].pc = "idle"
  /\ c \in posted /\ act \in AdminActs
  /\ Statement(ok)
  /\ staff' = [staff EXCEPT ![s] = [pc |-> "upsert", item |-> c, act |-> act,
                                    found |-> ok /\ audit[c].row]]
  /\ UNCHANGED <<dbVars, queueVars, worker, reporter, history>>

(* upsertModeration looks at the error, and throws.                        *)
AdminUpsert(s, ok) ==
  LET c == staff[s].item
      effective == ok /\ (staff[s].found \/ ~audit[c].row)
  IN /\ StaffMoves(s, "upsert", IF effective THEN "source" ELSE "idle")
     /\ Statement(ok)
     /\ audit' = IF effective
                 THEN [audit EXCEPT ![c] =
                         Audit(AdminStatus(staff[s].act), "human")]
                 ELSE audit
     /\ ordered' = IF effective /\ staff[s].act # "restoreContent"
                   THEN ordered \cup {c} ELSE ordered
     /\ UNCHANGED <<posted, older, hidden, review, flags, disagreements, notices,
                    queueVars, worker, reporter, judged, hiders>>

AdminSource(s, ok) ==
  /\ StaffMoves(s, "source", "idle")
  /\ Statement(ok)
  /\ IF ok THEN SetHidden(staff[s].item, staff[s].act # "restoreContent", "staff")
     ELSE UNCHANGED <<hidden, hiders>>
  /\ UNCHANGED <<posted, older, audit, review, flags, disagreements, notices,
                 queueVars, worker, reporter, judged, ordered>>

StaffStep(s) ==
  \E ok \in BOOLEAN :
    \/ ResolveQueue(s, ok) \/ ResolveSource(s, ok)
    \/ ResolveAudit(s, ok) \/ ResolveLog(s, ok)
    \/ AdminUpsert(s, ok) \/ AdminSource(s, ok)

----------------------------------------------------------------------------
(* Users who flag                                                          *)

FlagThreshold == 3

(* flagContent: the look-up for a duplicate is backed by a unique index,   *)
(* so a reporter's second flag is refused either way.                      *)
FlagInsert(r, c) ==
  /\ reporter[r].pc = "idle"
  /\ c \in posted /\ r \notin flags[c]
  /\ flags' = [flags EXCEPT ![c] = @ \cup {r}]
  /\ reporter' = [reporter EXCEPT ![r] = [pc |-> "count", item |-> c]]
  /\ UNCHANGED <<posted, older, hidden, audit, review, disagreements, notices,
                 queueVars, worker, staff, budget, history>>

(* Mutant: hides on more than the threshold, not from there on.            *)
FlagCountOver(r, ok) ==
  LET c == reporter[r].item
  IN /\ reporter[r].pc = "count"
     /\ Statement(ok)
     /\ reporter' = [reporter EXCEPT ![r] =
                       IF ok /\ Cardinality(flags[c]) > FlagThreshold
                          /\ c \in Flaggable
                       THEN [@ EXCEPT !.pc = "hide"] ELSE IdleReporter]
     /\ UNCHANGED <<dbVars, queueVars, worker, staff, history>>

FlagCount(r, ok) ==
  LET c == reporter[r].item
  IN /\ reporter[r].pc = "count"
     /\ Statement(ok)
     /\ reporter' = [reporter EXCEPT ![r] =
                       IF ok /\ Cardinality(flags[c]) >= FlagThreshold
                          /\ c \in Flaggable
                       THEN [@ EXCEPT !.pc = "hide"] ELSE IdleReporter]
     /\ UNCHANGED <<dbVars, queueVars, worker, staff, history>>

(* autoHideContent: is_hidden alone, no audit row and no review row.       *)
FlagHide(r, ok) ==
  /\ reporter[r].pc = "hide"
  /\ Statement(ok)
  /\ IF ok THEN SetHidden(reporter[r].item, TRUE, "flags")
     ELSE UNCHANGED <<hidden, hiders>>
  /\ reporter' = [reporter EXCEPT ![r] = IdleReporter]
  /\ UNCHANGED <<posted, older, audit, review, flags, disagreements, notices,
                 queueVars, worker, staff, judged, ordered>>

ReporterStep(r) == \E ok \in BOOLEAN : FlagCount(r, ok) \/ FlagHide(r, ok)

----------------------------------------------------------------------------
(* Crashes: the process dies between two statements.  The rows it wrote    *)
(* stay; its job stays active until its lock expires.                      *)

Crashing == /\ budget.crashes < MaxCrashes
            /\ budget' = [budget EXCEPT !.crashes = @ + 1]

CrashWorker(w) ==
  /\ worker[w].pc # "idle" /\ Crashing
  /\ worker' = [worker EXCEPT ![w] = IdleWorker]
  /\ UNCHANGED <<dbVars, queueVars, staff, reporter, history>>

CrashStaff(s) ==
  /\ staff[s].pc # "idle" /\ Crashing
  /\ staff' = [staff EXCEPT ![s] = IdleStaff]
  /\ UNCHANGED <<dbVars, queueVars, worker, reporter, history>>

CrashReporter(r) ==
  /\ reporter[r].pc # "idle" /\ Crashing
  /\ reporter' = [reporter EXCEPT ![r] = IdleReporter]
  /\ UNCHANGED <<dbVars, queueVars, worker, staff, history>>

CrashSweep ==
  /\ sweepFound # {} /\ Crashing
  /\ sweepFound' = {}
  /\ UNCHANGED <<dbVars, job, window, actors, history>>

----------------------------------------------------------------------------
(* The system                                                              *)

Next ==
  \/ \E c \in Content :
       \/ \E enqueued \in BOOLEAN : Post(c, enqueued)
       \/ Stall(c)
       \/ Purge(c)
       \/ \E ok \in BOOLEAN : SweepAdd(c, ok)
  \/ SweepQuery
  \/ CrashSweep
  \/ \E w \in Workers : \/ \E c \in Content : Fetch(w, c)
                        \/ WorkerStep(w)
                        \/ CrashWorker(w)
  \/ \E s \in Staff :
       \/ \E c \in Content, act \in ReviewActs : ResolveRead(s, c, act)
       \/ \E c \in Content, act \in AdminActs, ok \in BOOLEAN :
            AdminLookup(s, c, act, ok)
       \/ StaffStep(s)
       \/ CrashStaff(s)
  \/ \E r \in Reporters : \/ \E c \in Content : FlagInsert(r, c)
                          \/ ReporterStep(r)
                          \/ CrashReporter(r)

Spec == Init /\ [][Next]_vars

(* Every started handler runs on, workers take waiting jobs, BullMQ's      *)
(* stalled-job check returns the jobs of dead workers, and the cron fires. *)
(* Nobody has to post, to flag or to moderate.                             *)
Fairness ==
  /\ \A w \in Workers : /\ WF_vars(\E c \in Content : Fetch(w, c))
                        /\ WF_vars(WorkerStep(w))
  /\ \A c \in Content : WF_vars(Abandoned(c) /\ Stall(c))
  /\ WF_vars(SweepQuery)
  /\ WF_vars(\E c \in Content, ok \in BOOLEAN : SweepAdd(c, ok))
  /\ \A s \in Staff : WF_vars(StaffStep(s))
  /\ \A r \in Reporters : WF_vars(ReporterStep(r))

FairSpec == Spec /\ Fairness

----------------------------------------------------------------------------
(* Properties                                                              *)

(* The tables and the processes have their declared shapes.                *)
TypeOK ==
  /\ posted \subseteq Content
  /\ older \in [Content -> SUBSET Content]
  /\ hidden \in [Content -> BOOLEAN]
  /\ audit \in [Content -> AuditRow \cup {NoRow}]
  /\ review \in [Content -> ReviewRow \cup {NoRow}]
  /\ flags \in [Content -> SUBSET Reporters]
  /\ disagreements \subseteq Content
  /\ notices \in [Content -> SUBSET NoticeKinds]
  /\ job \in [Content -> Job]
  /\ window \in [Content -> 0..LookbackSweeps]
  /\ sweepFound \subseteq Content
  /\ worker \in [Workers -> WorkerState]
  /\ staff \in [Staff -> StaffState]
  /\ reporter \in [Reporters -> ReporterState]
  /\ budget \in Budget
  /\ judged \in [Content -> SUBSET Verdicts]
  /\ ordered \subseteq Content
  /\ hiders \in [Content -> SUBSET {"ai", "staff", "flags"}]

(* The verdicts on which the rollout mode lets the platform hide content   *)
(* with no human involved.                                                 *)
MayHide(v) ==
  /\ Mode \in {"hide_enabled", "full"}
  /\ ~CrisisSignal(v)
  /\ v.verdict \in {"hide", "remove"}
  /\ \/ v.confidence >= AutoHide
     \/ /\ Mode = "full" /\ v.verdict = "remove"
        /\ v.severity \notin {"low", "medium"}

Grounds(c) ==
  {source \in {"ai", "staff", "flags"} :
     CASE source = "ai"    -> \E v \in judged[c] : MayHide(v)
       [] source = "staff" -> c \in ordered
       [] source = "flags" -> Cardinality(flags[c]) >= FlagThreshold}

(* Content is hidden only if the model returned a verdict on that very     *)
(* item which the rollout mode allows to act on, or a moderator decided to *)
(* hide it, or three different users flagged it: whatever handlers race,   *)
(* crash, fail or run twice, no item is hidden on another's account.       *)
HiddenHasGrounds == \A c \in Content : hidden[c] => Grounds(c) # {}

(* Nothing is running, queued or about to be enqueued for c.               *)
Quiet(c) ==
  /\ c \in posted
  /\ c \notin sweepFound
  /\ job[c].state \notin {"waiting", "active"}
  /\ \A w \in Workers : worker[w].item # c
  /\ \A s \in Staff : staff[s].item # c
  /\ \A r \in Reporters : reporter[r].item # c

(* The verdicts that remove content with no review at all.                 *)
RemovesUnreviewed(v) ==
  /\ Mode = "full" /\ ~CrisisSignal(v)
  /\ v.verdict = "remove" /\ v.severity = "high"
  /\ v.confidence >= AutoRemove /\ HasInstantCategory(v)

(* The verdicts that leave content visible and ask for a review.           *)
LeavesVisible(v) == Decide(Mode, v).action = "allow" /\ Decide(Mode, v).needsReview

(* What another run of the job may have written over the row of a hide: it *)
(* judged the item differently, or its call of the model failed.           *)
LeftVisible(c) ==
  review[c].reason = "system_error" \/ \E v \in judged[c] : LeavesVisible(v)

(* Once its jobs are done, content the AI has hidden is in the review      *)
(* queue as hidden, the one state of a row in which resolveItem lets a     *)
(* moderator reverse it, unless it was an instant removal.  Where another  *)
(* run of the job left the item visible for review, the row may say        *)
(* visible: reverse is refused then and only restoreContent undoes the     *)
(* hide.  Holds with jobs delivered twice; a worker dying between hiding   *)
(* and queueing breaks it.                                                 *)
AiHideIsReviewable ==
  \A c \in Content : Quiet(c) /\ "ai" \in hiders[c] =>
    \/ review[c].row /\ (review[c].current_state = "hidden" \/ LeftVisible(c))
    \/ \E v \in judged[c] : RemovesUnreviewed(v)

(* Once its jobs are done, an item in which the model saw a cry for help   *)
(* is in the review queue and its author was sent the safety resources,    *)
(* even when another run of the job judged it differently.                 *)
CrisisIsCaredFor ==
  \A c \in Content : Quiet(c) /\ (\E v \in judged[c] : CrisisSignal(v)) =>
    review[c].row /\ "safety_resources" \in notices[c]

(* Once nobody is flagging it, an item of a flaggable type with three      *)
(* flags or more has been hidden: of reporters that insert and count       *)
(* concurrently, at least one counts three.  Nothing retries a count that  *)
(* failed or was cut off.                                                  *)
FlagThresholdHides ==
  \A c \in Content :
    budget.faults = 0 /\ budget.crashes = 0 /\ Quiet(c) /\ c \in Flaggable /\ Cardinality(flags[c]) >= FlagThreshold =>
      "flags" \in hiders[c]

(* Once its jobs and calls are done, an item whose review was closed as    *)
(* reversed is recorded as moderated by a human and its disagreement with  *)
(* the model is kept for prompt tuning, as long as no job was delivered    *)
(* twice.                                                                  *)
ReversalIsComplete ==
  \A c \in Content :
    budget.stalls = 0 /\ Quiet(c) /\ review[c].row /\ review[c].resolution = "reverse" =>
      /\ c \in disagreements
      /\ audit[c].row /\ audit[c].moderated_by = "human"

(* Every posted item is judged, or at least recorded: it gets an audit row *)
(* or is hidden, although its enqueue may be lost and one worker may die.  *)
EveryPostModerated ==
  \A c \in Content : c \in posted ~> (audit[c].row \/ hidden[c])

----------------------------------------------------------------------------
(* The inductive strengthening of TypeOK and HiddenHasGrounds              *)

(* A process that is doing something does it to an item, and a moderator   *)
(* who is about to close a review found one.                               *)
BusyInv ==
  /\ \A w \in Workers : worker[w].pc # "idle" => worker[w].item \in Content
  /\ \A s \in Staff : staff[s].pc # "idle" =>
       /\ staff[s].item \in Content
       /\ staff[s].pc = "resolveQueue" => review[staff[s].item].row
       /\ staff[s].act \in IF staff[s].pc \in {"upsert", "source"}
                           THEN AdminActs ELSE ReviewActs
  /\ \A r \in Reporters : reporter[r].pc # "idle" => reporter[r].item \in Content

(* Whoever is on its way to hide an item has grounds already.              *)
GroundsInv ==
  /\ \A w \in Workers : worker[w].pc # "idle"
       /\ worker[w].plan.action \in {"hide", "remove"} =>
         \E v \in judged[worker[w].item] : MayHide(v)
  /\ \A w \in Workers :
       worker[w].pc = "hide" => worker[w].plan.action \in {"hide", "remove"}
  /\ \A s \in Staff :
       \/ staff[s].pc \in {"resolveQueue", "resolveSource"}
            /\ staff[s].act = "hide"
       \/ staff[s].pc = "source" /\ staff[s].act # "restoreContent"
       => staff[s].item \in ordered
  /\ \A r \in Reporters : reporter[r].pc = "hide" =>
       Cardinality(flags[reporter[r].item]) >= FlagThreshold

IndInv == TypeOK /\ BusyInv /\ GroundsInv /\ HiddenHasGrounds

----------------------------------------------------------------------------
(* Refinement: the system implements ContentVisibility                     *)

Restoring ==
  {c \in Content : \E s \in Staff :
     /\ staff[s].item = c
     /\ \/ staff[s].act = "reverse"
           /\ staff[s].pc \in {"resolveQueue", "resolveSource"}
        \/ staff[s].act = "restoreContent" /\ staff[s].pc \in {"upsert", "source"}}

Visibility == INSTANCE ContentVisibility
                WITH Sources   <- {"ai", "staff", "flags"},
                     grounds   <- [c \in Content |-> Grounds(c)],
                     restoring <- Restoring

(* Every step of every handler hides on existing grounds, restores on a    *)
(* moderator's call in progress, or changes nobody's visibility.           *)
ImplementsContentVisibility == Visibility!Spec

----------------------------------------------------------------------------
(* What a comment says and the code does not do                            *)

(* ModerationSweepJobs: the sweep re-enqueues items with no audit row; an  *)
(* add that succeeds leaves a job that will run.                           *)
SweepReenqueues ==
  [][\A c \in sweepFound \ sweepFound' :
       budget' = budget /\ ~audit[c].row
       => job'[c].state \in {"waiting", "active"}]_vars
============================================================================
