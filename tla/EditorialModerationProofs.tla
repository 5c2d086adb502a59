--------------------- MODULE EditorialModerationProofs ---------------------
(***************************************************************************)
(* EditorialModeration, for any number of items, workers, moderators and   *)
(* reporters, any set of verdicts, any thresholds and any bounds on        *)
(* faults, crashes and redeliveries.                                       *)
(*                                                                         *)
(* IndInv, with TypeOK and HiddenHasGrounds, holds whatever goes wrong;    *)
(* from it follows that the pipeline implements ContentVisibility.  CareInv*)
(* says what is still owed to an item while nothing has failed or died,    *)
(* and CalmInv that its job is then run once while nothing has stalled     *)
(* either: from these follow what is promised of an item at rest.          *)
(***************************************************************************)
EXTENDS EditorialModeration, FiniteSetTheorems, TLAPS

----------------------------------------------------------------------------
(* The enforcement matrix                                                  *)

(* Every verdict gets a well-formed result in every rollout mode: the      *)
(* cases of decide() leave none out.                                       *)
LEMMA DecideType ==
  ASSUME NEW mode \in Modes, NEW v \in Verdict
  PROVE  Decide(mode, v) \in EnforcementResult
<1> DEFINE ResultOK(r) == r \in EnforcementResult
<1>1. ResultOK(CrisisOverride)
  BY DEF CrisisOverride, Result, EnforcementResult, Actions, AiStatuses,
         Priorities, Reasons
<1>2. ResultOK(HandleEscalate)
  BY DEF HandleEscalate, Result, EnforcementResult, Actions, AiStatuses,
         Priorities, Reasons
<1>3. ResultOK(HandleAllow(v))
  BY ThresholdAssumption DEF HandleAllow, Result, EnforcementResult, Actions,
         AiStatuses, Priorities, Reasons, Verdict, Severities
<1>4. ResultOK(HandleHide(mode, v))
  BY ThresholdAssumption DEF HandleHide, Result, EnforcementResult, Actions,
         AiStatuses, Priorities, Reasons, Verdict, Severities
<1>5. ResultOK(RemoveInMode(mode, v))
  BY DEF RemoveInMode, Result, EnforcementResult, Actions, AiStatuses,
         Priorities, Reasons
<1>6. ResultOK(RemoveBySeverity(v))
  BY ThresholdAssumption DEF RemoveBySeverity, Result, EnforcementResult,
         Actions, AiStatuses, Priorities, Reasons, Verdict, Severities
<1>7. ResultOK(HandleRemove(mode, v))
  BY <1>5, <1>6 DEF HandleRemove
<1>8. ResultOK(Result("allow", "pending_review", TRUE, "normal", "shadow_mode"))
  BY DEF Result, EnforcementResult, Actions, AiStatuses, Priorities, Reasons
<1> QED
  BY <1>1, <1>2, <1>3, <1>4, <1>7, <1>8 DEF Decide, Verdict, VerdictTags

(* decide() hides or removes only on a verdict that the rollout mode and   *)
(* the thresholds allow to act on.                                         *)
LEMMA DecideHides ==
  ASSUME NEW v \in Verdict, Decide(Mode, v).action \in {"hide", "remove"}
  PROVE  MayHide(v)
<1>1. ~CrisisSignal(v)
  BY DEF Decide, CrisisOverride, Result
<1>2. Mode # "shadow" /\ v.verdict \in {"hide", "remove"}
  BY <1>1, ThresholdAssumption, ConstantsAssumption
     DEF Decide, HandleAllow, HandleEscalate, Result, Verdict, VerdictTags
<1>3. CASE v.verdict = "hide"
  BY <1>1, <1>2, <1>3, ThresholdAssumption, ConstantsAssumption
     DEF Decide, HandleHide, Result, MayHide, Verdict, Modes
<1>4. CASE v.verdict = "remove"
  <2>1. Decide(Mode, v) = HandleRemove(Mode, v)
    BY <1>1, <1>2, <1>4 DEF Decide
  <2>2. CASE Mode \in {"allow_only", "hide_enabled"}
    <3>1. Decide(Mode, v) = RemoveInMode(Mode, v)
      BY <2>1, <2>2 DEF HandleRemove
    <3>2. Mode = "hide_enabled" /\ v.confidence >= AutoHide
      BY <3>1 DEF RemoveInMode, Result
    <3> QED
      BY <1>1, <1>4, <3>2 DEF MayHide
  <2>3. CASE Mode = "full"
    <3>1. CASE v.severity \in {"low", "medium"}
      <4>1. v.confidence >= AutoHide
        <5>1. ASSUME ~(v.confidence >= AutoHide)
              PROVE  RemoveBySeverity(v).action = "allow"
          BY <3>1, <5>1 DEF RemoveBySeverity, Result
        <5> QED
          BY <2>1, <2>3, <5>1 DEF HandleRemove
      <4> QED
        BY <1>1, <1>4, <2>3, <4>1 DEF MayHide
    <3>2. CASE v.severity \notin {"low", "medium"}
      BY <1>1, <1>4, <2>3, <3>2 DEF MayHide
    <3> QED
      BY <3>1, <3>2
  <2> QED
    BY <1>2, <2>2, <2>3, ConstantsAssumption DEF Modes
<1> QED
  BY <1>2, <1>3, <1>4

----------------------------------------------------------------------------
(* Bounded faults                                                          *)

LEMMA FailingType ==
  ASSUME TypeOK, NEW n \in Nat, Failing(n)
  PROVE  budget' \in Budget
BY DEF TypeOK, Budget, Failing

LEMMA StatementType ==
  ASSUME TypeOK, NEW ok \in BOOLEAN, Statement(ok)
  PROVE  budget' \in Budget
BY FailingType DEF Statement

LEMMA NoPlanType == NoPlan \in EnforcementResult
BY DEF NoPlan, Result, EnforcementResult, Actions, AiStatuses, Priorities, Reasons

LEMMA RowType ==
  /\ \A x \in AuditRow \cup {NoRow} : x.row \in BOOLEAN
  /\ \A x \in ReviewRow \cup {NoRow} : x.row \in BOOLEAN
<1>1. NoRow.row = FALSE
  BY DEF NoRow
<1>2. \A x \in AuditRow : x.row = TRUE
  BY DEF AuditRow
<1>3. \A x \in ReviewRow : x.row = TRUE
  BY DEF ReviewRow
<1> QED
  BY <1>1, <1>2, <1>3

----------------------------------------------------------------------------
(* Posting, and the queue                                                  *)

LEMMA PostStep ==
  ASSUME IndInv, NEW c \in Content, NEW enqueued \in BOOLEAN, Post(c, enqueued)
  PROVE  IndInv'
<1> USE DEF IndInv, Post, dbVars, actors, history
<1>1. TypeOK'
  BY ConstantsAssumption DEF TypeOK, Job, Waiting
<1>2. BusyInv'
  BY DEF BusyInv
<1>3. GroundsInv'
  BY DEF GroundsInv
<1>4. HiddenHasGrounds'
  BY DEF HiddenHasGrounds, Grounds
<1> QED
  BY <1>1, <1>2, <1>3, <1>4

LEMMA FetchStep ==
  ASSUME IndInv, NEW w \in Workers, NEW c \in Content, Fetch(w, c)
  PROVE  IndInv'
<1> USE DEF IndInv, Fetch, dbVars, history
<1>1. TypeOK'
  <2>1. job' \in [Content -> Job]
    <3>1. [job[c] EXCEPT !.state = "active", !.owner = w] \in Job
      BY ZenonT(60) DEF TypeOK, Job
    <3> QED
      BY <3>1 DEF TypeOK
  <2>2. worker' \in [Workers -> WorkerState]
    BY NoPlanType DEF TypeOK, WorkerState, IdleWorker
  <2> QED
    BY <2>1, <2>2 DEF TypeOK
<1>2. BusyInv'
  BY DEF BusyInv, TypeOK, IdleWorker
<1>3. GroundsInv'
  BY DEF GroundsInv, TypeOK, IdleWorker, NoPlan, Result
<1>4. HiddenHasGrounds'
  BY DEF HiddenHasGrounds, Grounds
<1> QED
  BY <1>1, <1>2, <1>3, <1>4

(* The queue and the sweep touch neither rows nor processes; their steps   *)
(* preserve everything but the types of what they write trivially.         *)
LEMMA QueueOnly ==
  ASSUME IndInv, UNCHANGED <<dbVars, actors, history>>,
         job' \in [Content -> Job], window' \in [Content -> 0..LookbackSweeps],
         sweepFound' \subseteq Content, budget' \in Budget
  PROVE  IndInv'
<1> USE DEF IndInv, dbVars, actors, history
<1>1. TypeOK'
  BY DEF TypeOK
<1>2. BusyInv'
  BY DEF BusyInv
<1>3. GroundsInv'
  BY DEF GroundsInv
<1>4. HiddenHasGrounds'
  BY DEF HiddenHasGrounds, Grounds
<1> QED
  BY <1>1, <1>2, <1>3, <1>4

LEMMA StallStep ==
  ASSUME IndInv, NEW c \in Content, Stall(c)
  PROVE  IndInv'
<1>1. budget' \in Budget
  BY DEF IndInv, TypeOK, Stall, Budget
<1>2. job' \in [Content -> Job]
  BY DEF IndInv, TypeOK, Stall, Job
<1> QED
  BY <1>1, <1>2, QueueOnly DEF IndInv, TypeOK, Stall

LEMMA PurgeStep ==
  ASSUME IndInv, NEW c \in Content, Purge(c)
  PROVE  IndInv'
<1>1. budget' \in Budget
  BY DEF IndInv, TypeOK, Purge, Budget
<1>2. job' \in [Content -> Job]
  BY DEF IndInv, TypeOK, Purge, Job, NoJob
<1> QED
  BY <1>1, <1>2, QueueOnly DEF IndInv, TypeOK, Purge

LEMMA SweepQueryStep ==
  ASSUME IndInv, SweepQuery
  PROVE  IndInv'
<1>1. sweepFound' \subseteq Content
  BY DEF SweepQuery
<1>2. window' \in [Content -> 0..LookbackSweeps]
  BY ConstantsAssumption DEF IndInv, TypeOK, SweepQuery
<1> QED
  BY <1>1, <1>2, QueueOnly DEF IndInv, TypeOK, SweepQuery

LEMMA SweepAddStep ==
  ASSUME IndInv, NEW c \in Content, NEW ok \in BOOLEAN, SweepAdd(c, ok)
  PROVE  IndInv'
<1>1. budget' \in Budget
  BY StatementType DEF IndInv, SweepAdd
<1>2. job' \in [Content -> Job]
  BY DEF IndInv, TypeOK, SweepAdd, Job, Waiting
<1> QED
  BY <1>1, <1>2, QueueOnly DEF IndInv, TypeOK, SweepAdd

LEMMA CrashSweepStep ==
  ASSUME IndInv, CrashSweep
  PROVE  IndInv'
<1>1. budget' \in Budget
  BY DEF IndInv, TypeOK, CrashSweep, Crashing, Budget
<1> QED
  BY <1>1, QueueOnly DEF IndInv, TypeOK, CrashSweep

----------------------------------------------------------------------------
(* The worker                                                              *)

(* A worker's step that moves it on without a plan and writes no row.      *)
LEMMA WorkerOnly ==
  ASSUME IndInv, UNCHANGED <<dbVars, queueVars, staff, reporter, history>>,
         budget' \in Budget, NEW w \in Workers,
         NEW next \in WorkerState,
         next.item = worker[w].item, next.plan = worker[w].plan,
         next.pc # "idle", next.pc # "hide",
         worker[w].pc # "idle",
         worker' = [worker EXCEPT ![w] = next]
  PROVE  IndInv'
<1> USE DEF IndInv, dbVars, queueVars, history
<1>1. TypeOK'
  BY DEF TypeOK
<1>2. BusyInv'
  BY DEF BusyInv, TypeOK
<1>3. GroundsInv'
  BY DEF GroundsInv, TypeOK
<1>4. HiddenHasGrounds'
  BY DEF HiddenHasGrounds, Grounds
<1> QED
  BY <1>1, <1>2, <1>3, <1>4

LEMMA CheckOverridesStep ==
  ASSUME IndInv, NEW w \in Workers, NEW okRole \in BOOLEAN,
         NEW okAudit \in BOOLEAN, CheckOverrides(w, okRole, okAudit)
  PROVE  IndInv'
<1>1. PICK pc \in {"auditLookup", "judge"} :
        worker' = [worker EXCEPT ![w].pc = pc]
  BY DEF CheckOverrides
<1>2. budget' \in Budget
  BY FailingType DEF IndInv, CheckOverrides
<1>3. worker[w] \in WorkerState
  BY DEF IndInv, TypeOK
<1>4. [worker[w] EXCEPT !.pc = pc] \in WorkerState
  BY <1>3 DEF WorkerState
<1>5. worker' = [worker EXCEPT ![w] = [worker[w] EXCEPT !.pc = pc]]
  BY <1>1
<1>6. worker[w].pc # "idle"
  BY DEF CheckOverrides
<1>7. /\ [worker[w] EXCEPT !.pc = pc].item = worker[w].item
      /\ [worker[w] EXCEPT !.pc = pc].plan = worker[w].plan
      /\ [worker[w] EXCEPT !.pc = pc].pc = pc
  BY <1>3 DEF WorkerState
<1> HIDE DEF WorkerState
<1> QED
  BY <1>2, <1>4, <1>5, <1>6, <1>7, WorkerOnly DEF CheckOverrides

(* A plan that hides or removes has a verdict behind it.                   *)
LEMMA PlanStep ==
  ASSUME IndInv, NEW w \in Workers, NEW plan \in EnforcementResult,
         Plan(w, plan), budget' \in Budget,
         judged' \in [Content -> SUBSET Verdicts],
         \A c \in Content : judged[c] \subseteq judged'[c],
         plan.action \in {"hide", "remove"} =>
           \E v \in judged'[worker[w].item] : MayHide(v)
  PROVE  IndInv'
<1> USE DEF IndInv, Plan, dbVars, queueVars
<1>1. TypeOK'
  <2>1. [worker[w] EXCEPT !.pc = "auditLookup", !.plan = plan] \in WorkerState
    <3>1. worker[w] \in WorkerState
      BY DEF TypeOK
    <3> QED
      BY <3>1 DEF WorkerState
  <2>2. worker' \in [Workers -> WorkerState]
    BY <2>1 DEF TypeOK
  <2> QED
    BY <2>2 DEF TypeOK
<1>2. BusyInv'
  BY DEF BusyInv, TypeOK
<1>3. GroundsInv'
  <2>1. \A x \in Workers : worker'[x].pc # "idle"
           /\ worker'[x].plan.action \in {"hide", "remove"} =>
             \E v \in judged'[worker'[x].item] : MayHide(v)
    <3> SUFFICES ASSUME NEW x \in Workers, worker'[x].pc # "idle",
                        worker'[x].plan.action \in {"hide", "remove"}
                 PROVE  \E v \in judged'[worker'[x].item] : MayHide(v)
      OBVIOUS
    <3>1. CASE x = w
      BY <3>1 DEF TypeOK, WorkerState
    <3>2. CASE x # w
      BY <3>2 DEF TypeOK, GroundsInv, BusyInv
    <3> QED
      BY <3>1, <3>2
  <2> QED
    BY <2>1 DEF GroundsInv, TypeOK, MayHide
<1>4. HiddenHasGrounds'
  <2>1. \A c \in Content :
          (\E v \in judged[c] : MayHide(v)) => \E v \in judged'[c] : MayHide(v)
    OBVIOUS
  <2>2. \A c \in Content : Grounds(c) \subseteq Grounds(c)'
    BY <2>1 DEF Grounds, MayHide
  <2> QED
    BY <2>2 DEF HiddenHasGrounds
<1> QED
  BY <1>1, <1>2, <1>3, <1>4


LEMMA BuildFailsStep ==
  ASSUME IndInv, NEW w \in Workers, BuildFails(w)
  PROVE  IndInv'
<1> DEFINE plan == Result("allow", "pending_review", FALSE, "low", "")
<1>1. plan \in EnforcementResult /\ plan.action = "allow"
  BY DEF NoPlan, Result, EnforcementResult, Actions, AiStatuses, Priorities,
     Reasons
<1>2. budget' \in Budget
  BY FailingType DEF IndInv, TypeOK, BuildFails
<1>3. Plan(w, plan) /\ UNCHANGED judged
  BY DEF BuildFails
<1>4. judged' \in [Content -> SUBSET Verdicts]
  BY <1>3 DEF IndInv, TypeOK
<1> HIDE DEF plan
<1> QED
  BY <1>1, <1>2, <1>3, <1>4, PlanStep

LEMMA SkipShortStep ==
  ASSUME IndInv, NEW w \in Workers, SkipShort(w)
  PROVE  IndInv'
<1> DEFINE plan == NoPlan
<1>1. plan \in EnforcementResult /\ plan.action = "allow"
  BY DEF NoPlan, Result, EnforcementResult, Actions, AiStatuses, Priorities,
     Reasons
<1>2. budget' \in Budget
  BY FailingType DEF IndInv, TypeOK, SkipShort
<1>3. Plan(w, plan) /\ UNCHANGED judged
  BY DEF SkipShort
<1>4. judged' \in [Content -> SUBSET Verdicts]
  BY <1>3 DEF IndInv, TypeOK
<1> HIDE DEF plan
<1> QED
  BY <1>1, <1>2, <1>3, <1>4, PlanStep

LEMMA NotConfiguredStep ==
  ASSUME IndInv, NEW w \in Workers, NotConfigured(w)
  PROVE  IndInv'
<1> DEFINE plan == NoPlan
<1>1. plan \in EnforcementResult /\ plan.action = "allow"
  BY DEF NoPlan, Result, EnforcementResult, Actions, AiStatuses, Priorities,
     Reasons
<1>2. budget' \in Budget
  BY FailingType DEF IndInv, TypeOK, NotConfigured
<1>3. Plan(w, plan) /\ UNCHANGED judged
  BY DEF NotConfigured
<1>4. judged' \in [Content -> SUBSET Verdicts]
  BY <1>3 DEF IndInv, TypeOK
<1> HIDE DEF plan
<1> QED
  BY <1>1, <1>2, <1>3, <1>4, PlanStep

LEMMA JudgeFailsStep ==
  ASSUME IndInv, NEW w \in Workers, JudgeFails(w)
  PROVE  IndInv'
<1> DEFINE plan == Result("allow", "pending_review", TRUE, "normal", "system_error")
<1>1. plan \in EnforcementResult /\ plan.action = "allow"
  BY DEF NoPlan, Result, EnforcementResult, Actions, AiStatuses, Priorities,
     Reasons
<1>2. budget' \in Budget
  BY FailingType DEF IndInv, TypeOK, JudgeFails
<1>3. Plan(w, plan) /\ UNCHANGED judged
  BY DEF JudgeFails
<1>4. judged' \in [Content -> SUBSET Verdicts]
  BY <1>3 DEF IndInv, TypeOK
<1> HIDE DEF plan
<1> QED
  BY <1>1, <1>2, <1>3, <1>4, PlanStep

LEMMA JudgeStep ==
  ASSUME IndInv, NEW w \in Workers, NEW v \in Verdicts, Judge(w, v)
  PROVE  IndInv'
<1>1. v \in Verdict /\ Mode \in Modes
  BY ConstantsAssumption
<1>2. Decide(Mode, v) \in EnforcementResult
  BY <1>1, DecideType
<1>3. worker[w].item \in Content
  BY DEF IndInv, BusyInv, Judge, Plan
<1>4. judged' \in [Content -> SUBSET Verdicts]
  BY <1>3 DEF IndInv, TypeOK, Judge
<1>5. \A c \in Content : judged[c] \subseteq judged'[c]
  BY <1>3 DEF IndInv, TypeOK, Judge
<1>6. v \in judged'[worker[w].item]
  BY <1>3 DEF IndInv, TypeOK, Judge
<1>7. budget' \in Budget
  BY DEF IndInv, TypeOK, Judge
<1>8. Plan(w, Decide(Mode, v))
  BY DEF Judge
<1>9. Decide(Mode, v).action \in {"hide", "remove"} => MayHide(v)
  BY <1>1, DecideHides
<1> QED
  BY <1>2, <1>4, <1>5, <1>6, <1>7, <1>8, <1>9, PlanStep

LEMMA AuditLookupStep ==
  ASSUME IndInv, NEW w \in Workers, NEW ok \in BOOLEAN, AuditLookup(w, ok)
  PROVE  IndInv'
<1> DEFINE next == [worker[w] EXCEPT !.pc = "auditWrite",
                      !.found = ok /\ audit[worker[w].item].row]
<1>1. worker[w] \in WorkerState /\ worker[w].item \in Content
  BY DEF IndInv, TypeOK, BusyInv, AuditLookup
<1>2. audit[worker[w].item].row \in BOOLEAN
  <2>1. audit[worker[w].item] \in AuditRow \cup {NoRow}
    BY <1>1 DEF IndInv, TypeOK
  <2> QED
    BY <2>1, RowType
<1>3. /\ next \in WorkerState /\ next.pc = "auditWrite"
      /\ next.item = worker[w].item /\ next.plan = worker[w].plan
  BY <1>1, <1>2 DEF WorkerState
<1>4. budget' \in Budget
  BY StatementType DEF IndInv, AuditLookup
<1>5. worker' = [worker EXCEPT ![w] = next] /\ worker[w].pc # "idle"
  BY DEF AuditLookup
<1> HIDE DEF next
<1> QED
  BY <1>3, <1>4, <1>5, WorkerOnly DEF AuditLookup

LEMMA ReviewLookupStep ==
  ASSUME IndInv, NEW w \in Workers, NEW ok \in BOOLEAN, ReviewLookup(w, ok)
  PROVE  IndInv'
<1> DEFINE next == [worker[w] EXCEPT !.pc = "reviewWrite",
                      !.found = ok /\ review[worker[w].item].row]
<1>1. worker[w] \in WorkerState /\ worker[w].item \in Content
  BY DEF IndInv, TypeOK, BusyInv, ReviewLookup
<1>2. review[worker[w].item].row \in BOOLEAN
  <2>1. review[worker[w].item] \in ReviewRow \cup {NoRow}
    BY <1>1 DEF IndInv, TypeOK
  <2> QED
    BY <2>1, RowType
<1>3. /\ next \in WorkerState /\ next.pc = "reviewWrite"
      /\ next.item = worker[w].item /\ next.plan = worker[w].plan
  BY <1>1, <1>2 DEF WorkerState
<1>4. budget' \in Budget
  BY StatementType DEF IndInv, ReviewLookup
<1>5. worker' = [worker EXCEPT ![w] = next] /\ worker[w].pc # "idle"
  BY DEF ReviewLookup
<1> HIDE DEF next
<1> QED
  BY <1>3, <1>4, <1>5, WorkerOnly DEF ReviewLookup

LEMMA AuditWriteStep ==
  ASSUME IndInv, NEW w \in Workers, NEW ok \in BOOLEAN, AuditWrite(w, ok)
  PROVE  IndInv'
<1> USE DEF IndInv, AuditWrite, queueVars, history
<1>1. TypeOK'
  <2>1. budget' \in Budget
    BY StatementType
  <2>2. audit' \in [Content -> AuditRow \cup {NoRow}]
    BY DEF TypeOK, Audit, AuditRow, WorkerState, EnforcementResult
  <2>3. worker' \in [Workers -> WorkerState]
    BY DEF TypeOK, WorkerState, Step, AfterAudit, AfterHide
  <2> QED
    BY <2>1, <2>2, <2>3 DEF TypeOK
<1>2. BusyInv'
  BY DEF BusyInv, TypeOK, Step
<1>3. GroundsInv'
  BY DEF GroundsInv, TypeOK, Step, AfterAudit, AfterHide
<1>4. HiddenHasGrounds'
  BY DEF HiddenHasGrounds, Grounds
<1> QED
  BY <1>1, <1>2, <1>3, <1>4

LEMMA HideSourceStep ==
  ASSUME IndInv, NEW w \in Workers, NEW ok \in BOOLEAN, HideSource(w, ok)
  PROVE  IndInv'
<1> USE DEF IndInv, HideSource, queueVars
<1>1. TypeOK'
  <2>1. budget' \in Budget
    BY StatementType
  <2>2. hidden' \in [Content -> BOOLEAN]
    BY DEF TypeOK, SetHidden
  <2>3. hiders' \in [Content -> SUBSET {"ai", "staff", "flags"}]
    BY DEF TypeOK, SetHidden
  <2>4. worker' \in [Workers -> WorkerState]
    BY DEF TypeOK, WorkerState, Step, AfterHide
  <2>5. notices' \in [Content -> SUBSET NoticeKinds]
    BY DEF TypeOK, NoticeKinds
  <2> QED
    BY <2>1, <2>2, <2>3, <2>4, <2>5 DEF TypeOK
<1>2. BusyInv'
  BY DEF BusyInv, TypeOK, Step
<1>3. GroundsInv'
  BY DEF GroundsInv, TypeOK, Step, AfterHide
<1>4. HiddenHasGrounds'
  <2>1. \E v \in judged[worker[w].item] : MayHide(v)
    BY DEF GroundsInv, Step
  <2>2. "ai" \in Grounds(worker[w].item)
    BY <2>1 DEF Grounds
  <2>3. \A c \in Content : hidden'[c] => hidden[c] \/ c = worker[w].item
    BY DEF SetHidden, TypeOK
  <2>4. \A c \in Content : Grounds(c)' = Grounds(c)
    BY DEF Grounds
  <2> QED
    BY <2>2, <2>3, <2>4 DEF HiddenHasGrounds
<1> QED
  BY <1>1, <1>2, <1>3, <1>4

LEMMA ReviewWriteStep ==
  ASSUME IndInv, NEW w \in Workers, NEW ok \in BOOLEAN, ReviewWrite(w, ok)
  PROVE  IndInv'
<1> USE DEF IndInv, ReviewWrite, queueVars, history
<1>0. PendingRow(worker[w].plan) \in ReviewRow
  BY DEF TypeOK, PendingRow, ReviewRow, WorkerState, EnforcementResult
<1>1. TypeOK'
  <2>1. budget' \in Budget
    BY StatementType
  <2>2. review' \in [Content -> ReviewRow \cup {NoRow}]
    BY <1>0 DEF TypeOK
  <2>3. worker' \in [Workers -> WorkerState]
    BY DEF TypeOK, WorkerState, Step
  <2> QED
    BY <2>1, <2>2, <2>3 DEF TypeOK
<1>2. BusyInv'
  <2>1. \A c \in Content : review[c].row => review'[c].row
    BY DEF TypeOK, PendingRow
  <2> QED
    BY <2>1 DEF BusyInv, TypeOK, Step
<1>3. GroundsInv'
  BY DEF GroundsInv, TypeOK, Step
<1>4. HiddenHasGrounds'
  BY DEF HiddenHasGrounds, Grounds
<1> QED
  BY <1>1, <1>2, <1>3, <1>4

LEMMA FinishedJobType ==
  ASSUME NEW j \in Job
  PROVE  [j EXCEPT !.state = "completed", !.owner = NoOwner] \in Job
BY DEF Job

LEMMA FinishStep ==
  ASSUME IndInv, NEW w \in Workers, Finish(w)
  PROVE  IndInv'
<1> USE DEF IndInv, Finish, history
<1>1. TypeOK'
  <2>1. notices' \in [Content -> SUBSET NoticeKinds]
    BY DEF TypeOK, NoticeKinds
  <2>2. job' \in [Content -> Job]
    <3>1. ASSUME NEW c \in Content
          PROVE  [job[c] EXCEPT !.state = "completed", !.owner = NoOwner] \in Job
      <4>1. job[c] \in Job
        BY DEF TypeOK
      <4> QED
        BY <4>1, FinishedJobType
    <3> QED
      BY <3>1 DEF TypeOK
  <2>3. worker' \in [Workers -> WorkerState]
    BY NoPlanType DEF TypeOK, WorkerState, IdleWorker
  <2> QED
    BY <2>1, <2>2, <2>3 DEF TypeOK
<1>2. BusyInv'
  BY DEF BusyInv, TypeOK, IdleWorker
<1>3. GroundsInv'
  BY DEF GroundsInv, TypeOK, IdleWorker
<1>4. HiddenHasGrounds'
  BY DEF HiddenHasGrounds, Grounds
<1> QED
  BY <1>1, <1>2, <1>3, <1>4

LEMMA CrashWorkerStep ==
  ASSUME IndInv, NEW w \in Workers, CrashWorker(w)
  PROVE  IndInv'
<1> USE DEF IndInv, CrashWorker, Crashing, dbVars, queueVars, history
<1>1. TypeOK'
  <2>1. worker' \in [Workers -> WorkerState]
    BY NoPlanType DEF TypeOK, WorkerState, IdleWorker
  <2>2. budget' \in Budget
    BY DEF TypeOK, Budget
  <2> QED
    BY <2>1, <2>2 DEF TypeOK
<1>2. BusyInv'
  BY DEF BusyInv, TypeOK, IdleWorker
<1>3. GroundsInv'
  BY DEF GroundsInv, TypeOK, IdleWorker
<1>4. HiddenHasGrounds'
  BY DEF HiddenHasGrounds, Grounds
<1> QED
  BY <1>1, <1>2, <1>3, <1>4

LEMMA WorkerSteps ==
  ASSUME IndInv, NEW w \in Workers, WorkerStep(w)
  PROVE  IndInv'
BY CheckOverridesStep, BuildFailsStep, SkipShortStep, NotConfiguredStep,
   JudgeFailsStep, JudgeStep, AuditLookupStep, AuditWriteStep, HideSourceStep,
   ReviewLookupStep, ReviewWriteStep, FinishStep DEF WorkerStep

----------------------------------------------------------------------------
(* Moderators and administrators                                           *)

LEMMA IdleStaffType == IdleStaff \in StaffState /\ IdleStaff.pc = "idle"
BY DEF IdleStaff, StaffState

(* A moderator's call that moves on keeps its item and its act.            *)
LEMMA StaffMovesType ==
  ASSUME TypeOK, NEW s \in Staff, NEW pc, StaffMoves(s, pc, "idle")
           \/ \E next \in {"resolveSource", "resolveAudit", "resolveLog", "source"} :
                StaffMoves(s, pc, next)
  PROVE  /\ staff' \in [Staff -> StaffState]
         /\ \A x \in Staff : x # s => staff'[x] = staff[x]
         /\ staff'[s].pc # "idle" => /\ staff'[s].item = staff[s].item
                                     /\ staff'[s].act = staff[s].act
<1>1. staff[s] \in StaffState
  BY DEF TypeOK
<1>2. CASE StaffMoves(s, pc, "idle")
  BY <1>2, IdleStaffType DEF TypeOK, StaffMoves
<1>3. ASSUME NEW next \in {"resolveSource", "resolveAudit", "resolveLog", "source"},
             StaffMoves(s, pc, next)
      PROVE  /\ staff' \in [Staff -> StaffState]
             /\ \A x \in Staff : x # s => staff'[x] = staff[x]
             /\ staff'[s].item = staff[s].item
             /\ staff'[s].act = staff[s].act
  <2>1. staff' = [staff EXCEPT ![s] = [staff[s] EXCEPT !.pc = next]]
    BY <1>3 DEF StaffMoves
  <2>2. /\ [staff[s] EXCEPT !.pc = next] \in StaffState
        /\ [staff[s] EXCEPT !.pc = next].item = staff[s].item
        /\ [staff[s] EXCEPT !.pc = next].act = staff[s].act
    BY <1>1 DEF StaffState
  <2> HIDE DEF StaffState
  <2> QED
    BY <2>1, <2>2 DEF TypeOK
<1> QED
  BY <1>2, <1>3

LEMMA ResolveReadStep ==
  ASSUME IndInv, NEW s \in Staff, NEW c \in Content, NEW act \in ReviewActs,
         ResolveRead(s, c, act)
  PROVE  IndInv'
<1> USE DEF IndInv, ResolveRead, dbVars, queueVars
<1>1. /\ staff'[s] \in StaffState /\ staff'[s].pc = "resolveQueue"
      /\ staff'[s].item = c /\ staff'[s].act = act
      /\ staff' \in [Staff -> StaffState]
      /\ \A x \in Staff : x # s => staff'[x] = staff[x]
  BY DEF TypeOK, IdleStaff, StaffState
<1>2. TypeOK'
  BY <1>1 DEF TypeOK
<1>3. BusyInv'
  BY <1>1 DEF BusyInv
<1>4. GroundsInv'
  BY <1>1 DEF GroundsInv
<1>5. HiddenHasGrounds'
  BY DEF HiddenHasGrounds, Grounds
<1> QED
  BY <1>2, <1>3, <1>4, <1>5

LEMMA AdminLookupStep ==
  ASSUME IndInv, NEW s \in Staff, NEW c \in Content, NEW act \in AdminActs,
         NEW ok \in BOOLEAN, AdminLookup(s, c, act, ok)
  PROVE  IndInv'
<1> USE DEF IndInv, AdminLookup, dbVars, queueVars, history
<1>1. audit[c].row \in BOOLEAN
  BY RowType DEF TypeOK
<1>2. /\ staff'[s] \in StaffState /\ staff'[s].pc = "upsert"
      /\ staff'[s].item = c /\ staff'[s].act = act
      /\ staff' \in [Staff -> StaffState]
      /\ \A x \in Staff : x # s => staff'[x] = staff[x]
  BY <1>1 DEF TypeOK, StaffState
<1>3. budget' \in Budget
  BY StatementType
<1>4. TypeOK'
  BY <1>2, <1>3 DEF TypeOK
<1>5. BusyInv'
  BY <1>2 DEF BusyInv
<1>6. GroundsInv'
  BY <1>2 DEF GroundsInv
<1>7. HiddenHasGrounds'
  BY DEF HiddenHasGrounds, Grounds
<1> QED
  BY <1>4, <1>5, <1>6, <1>7

LEMMA ResolveQueueStep ==
  ASSUME IndInv, NEW s \in Staff, NEW ok \in BOOLEAN, ResolveQueue(s, ok)
  PROVE  IndInv'
<1> USE DEF IndInv, ResolveQueue, queueVars, history
<1>1. /\ staff[s] \in StaffState /\ staff[s].item \in Content
      /\ staff[s].pc # "idle"
  BY DEF TypeOK, BusyInv, StaffMoves
<1>2. /\ staff' \in [Staff -> StaffState]
      /\ \A x \in Staff : x # s => staff'[x] = staff[x]
      /\ staff'[s].pc # "idle" => /\ staff'[s].item = staff[s].item
                                  /\ staff'[s].act = staff[s].act
  BY StaffMovesType
<1>3. staff[s].pc = "resolveQueue" /\ staff'[s].pc \in {"resolveSource", "resolveAudit"}
  BY DEF TypeOK, StaffMoves, IdleStaff, StaffState
<1>4. budget' \in Budget
  BY StatementType
<1>a. \A c \in Content : review[c].row => review'[c].row
  BY DEF TypeOK, ReviewRow
<1>5. TypeOK'
  <2>1. review[staff[s].item] \in ReviewRow /\ staff[s].act \in ReviewActs
    BY <1>1, <1>3 DEF TypeOK, BusyInv, NoRow
  <2>2. [review[staff[s].item] EXCEPT !.status = "resolved",
                                      !.resolution = staff[s].act] \in ReviewRow
    BY <2>1 DEF ReviewRow, ReviewActs
  <2>3. review' \in [Content -> ReviewRow \cup {NoRow}]
    BY <2>2 DEF TypeOK
  <2> QED
    BY <1>2, <1>4, <2>3 DEF TypeOK
<1>6. BusyInv'
  BY <1>1, <1>2, <1>3, <1>a DEF BusyInv, TypeOK
<1>7. GroundsInv'
  BY <1>1, <1>2, <1>3 DEF GroundsInv
<1>8. HiddenHasGrounds'
  BY DEF HiddenHasGrounds, Grounds
<1> QED
  BY <1>5, <1>6, <1>7, <1>8

LEMMA ResolveSourceStep ==
  ASSUME IndInv, NEW s \in Staff, NEW ok \in BOOLEAN, ResolveSource(s, ok)
  PROVE  IndInv'
<1> USE DEF IndInv, ResolveSource, queueVars
<1>1. /\ staff[s] \in StaffState /\ staff[s].item \in Content
      /\ staff[s].pc # "idle"
  BY DEF TypeOK, BusyInv, StaffMoves
<1>2. /\ staff' \in [Staff -> StaffState]
      /\ \A x \in Staff : x # s => staff'[x] = staff[x]
      /\ staff'[s].pc # "idle" => /\ staff'[s].item = staff[s].item
                                  /\ staff'[s].act = staff[s].act
  BY StaffMovesType
<1>3. staff[s].pc = "resolveSource" /\ staff'[s].pc \in {"resolveAudit"}
  BY DEF TypeOK, StaffMoves, IdleStaff, StaffState
<1>4. budget' \in Budget
  BY StatementType
<1>5. TypeOK'
  <2>1. hidden' \in [Content -> BOOLEAN]
    BY DEF TypeOK, SetHidden
  <2>2. hiders' \in [Content -> SUBSET {"ai", "staff", "flags"}]
    BY DEF TypeOK, SetHidden
  <2> QED
    BY <1>2, <1>4, <2>1, <2>2 DEF TypeOK
<1>6. BusyInv'
  BY <1>1, <1>2, <1>3 DEF BusyInv
<1>7. GroundsInv'
  BY <1>1, <1>2, <1>3 DEF GroundsInv
<1>8. HiddenHasGrounds'
  <2>1. \A c \in Content :
          hidden'[c] => hidden[c] \/ (c = staff[s].item /\ staff[s].act = "hide")
    <3>1. CASE staff[s].act = "hide"
      BY <3>1 DEF SetHidden, TypeOK
    <3>2. CASE ~(staff[s].act = "hide")
      <4>1. (staff[s].act = "hide") = FALSE
        BY <3>2
      <4>2. hidden' \in {hidden, [hidden EXCEPT ![staff[s].item] = FALSE]}
        BY <4>1 DEF SetHidden
      <4> QED
        <5>1. CASE hidden' = hidden
          BY <5>1
        <5>2. CASE hidden' = [hidden EXCEPT ![staff[s].item] = FALSE]
          BY <5>2 DEF TypeOK
        <5> QED
          BY <4>2, <5>1, <5>2
    <3> QED
      BY <3>1, <3>2
  <2>2. staff[s].act = "hide" => "staff" \in Grounds(staff[s].item)
    BY <1>3 DEF GroundsInv, Grounds
  <2>3. \A c \in Content : Grounds(c)' = Grounds(c)
    BY DEF Grounds
  <2> QED
    BY <2>1, <2>2, <2>3 DEF HiddenHasGrounds
<1> QED
  BY <1>5, <1>6, <1>7, <1>8

LEMMA ResolveAuditStep ==
  ASSUME IndInv, NEW s \in Staff, NEW ok \in BOOLEAN, ResolveAudit(s, ok)
  PROVE  IndInv'
<1> USE DEF IndInv, ResolveAudit, queueVars, history
<1>1. /\ staff[s] \in StaffState /\ staff[s].item \in Content
      /\ staff[s].pc # "idle"
  BY DEF TypeOK, BusyInv, StaffMoves
<1>2. /\ staff' \in [Staff -> StaffState]
      /\ \A x \in Staff : x # s => staff'[x] = staff[x]
      /\ staff'[s].pc # "idle" => /\ staff'[s].item = staff[s].item
                                  /\ staff'[s].act = staff[s].act
  BY StaffMovesType
<1>3. staff[s].pc = "resolveAudit" /\ staff'[s].pc \in {"resolveLog", "idle"}
  BY DEF TypeOK, StaffMoves, IdleStaff, StaffState
<1>4. budget' \in Budget
  BY StatementType
<1>5. TypeOK'
  <2>1. ASSUME audit[staff[s].item].row
        PROVE  audit[staff[s].item].moderation_status \in AiStatuses \cup {"visible"}
    <3>1. audit[staff[s].item] \in AuditRow \cup {NoRow}
      BY <1>1 DEF TypeOK
    <3>2. audit[staff[s].item] \in AuditRow
      BY <2>1, <3>1 DEF NoRow
    <3> QED
      BY <3>2 DEF AuditRow
  <2>2. audit' \in [Content -> AuditRow \cup {NoRow}]
    BY <1>1, <2>1 DEF TypeOK, Audit, AuditRow, AiStatuses
  <2> QED
    BY <1>2, <1>4, <2>2 DEF TypeOK
<1>6. BusyInv'
  BY <1>1, <1>2, <1>3 DEF BusyInv
<1>7. GroundsInv'
  BY <1>1, <1>2, <1>3 DEF GroundsInv
<1>8. HiddenHasGrounds'
  BY DEF HiddenHasGrounds, Grounds
<1> QED
  BY <1>5, <1>6, <1>7, <1>8

LEMMA ResolveLogStep ==
  ASSUME IndInv, NEW s \in Staff, NEW ok \in BOOLEAN, ResolveLog(s, ok)
  PROVE  IndInv'
<1> USE DEF IndInv, ResolveLog, queueVars, history
<1>1. /\ staff[s] \in StaffState /\ staff[s].item \in Content
      /\ staff[s].pc # "idle"
  BY DEF TypeOK, BusyInv, StaffMoves
<1>2. /\ staff' \in [Staff -> StaffState]
      /\ \A x \in Staff : x # s => staff'[x] = staff[x]
      /\ staff'[s].pc # "idle" => /\ staff'[s].item = staff[s].item
                                  /\ staff'[s].act = staff[s].act
  BY StaffMovesType
<1>3. staff[s].pc = "resolveLog" /\ staff'[s].pc \in {"idle"}
  BY DEF TypeOK, StaffMoves, IdleStaff, StaffState
<1>4. budget' \in Budget
  BY StatementType
<1>5. TypeOK'
  BY <1>1, <1>2, <1>4 DEF TypeOK
<1>6. BusyInv'
  BY <1>1, <1>2, <1>3 DEF BusyInv
<1>7. GroundsInv'
  BY <1>1, <1>2, <1>3 DEF GroundsInv
<1>8. HiddenHasGrounds'
  BY DEF HiddenHasGrounds, Grounds
<1> QED
  BY <1>5, <1>6, <1>7, <1>8

LEMMA AdminUpsertStep ==
  ASSUME IndInv, NEW s \in Staff, NEW ok \in BOOLEAN, AdminUpsert(s, ok)
  PROVE  IndInv'
<1> USE DEF IndInv, AdminUpsert, queueVars
<1>1. /\ staff[s] \in StaffState /\ staff[s].item \in Content
      /\ staff[s].pc # "idle"
  BY DEF TypeOK, BusyInv, StaffMoves
<1>2. /\ staff' \in [Staff -> StaffState]
      /\ \A x \in Staff : x # s => staff'[x] = staff[x]
      /\ staff'[s].pc # "idle" => /\ staff'[s].item = staff[s].item
                                  /\ staff'[s].act = staff[s].act
  BY StaffMovesType
<1>3. staff[s].pc = "upsert" /\ staff'[s].pc \in {"source", "idle"}
  BY DEF TypeOK, StaffMoves, IdleStaff, StaffState
<1>4. budget' \in Budget
  BY StatementType
<1>5. TypeOK'
  <2>1. AdminStatus(staff[s].act) \in AiStatuses \cup {"visible"}
    BY <1>1, <1>3 DEF BusyInv, AdminActs, AdminStatus, AiStatuses
  <2>2. audit' \in [Content -> AuditRow \cup {NoRow}]
    BY <1>1, <2>1 DEF TypeOK, Audit, AuditRow
  <2> QED
    BY <1>1, <1>2, <1>4, <2>2 DEF TypeOK
<1>6. BusyInv'
  BY <1>1, <1>2, <1>3 DEF BusyInv
<1>7. GroundsInv'
  <2>1. staff'[s].pc = "source" /\ staff'[s].act # "restoreContent"
          => staff'[s].item \in ordered'
    BY <1>1, <1>2, <1>3 DEF StaffMoves, TypeOK, IdleStaff
  <2> QED
    BY <1>1, <1>2, <1>3, <2>1 DEF GroundsInv
<1>8. HiddenHasGrounds'
  <2>1. \A c \in Content : Grounds(c) \subseteq Grounds(c)'
    BY DEF Grounds
  <2> QED
    BY <2>1 DEF HiddenHasGrounds
<1> QED
  BY <1>5, <1>6, <1>7, <1>8

LEMMA AdminSourceStep ==
  ASSUME IndInv, NEW s \in Staff, NEW ok \in BOOLEAN, AdminSource(s, ok)
  PROVE  IndInv'
<1> USE DEF IndInv, AdminSource, queueVars
<1>1. /\ staff[s] \in StaffState /\ staff[s].item \in Content
      /\ staff[s].pc # "idle"
  BY DEF TypeOK, BusyInv, StaffMoves
<1>2. /\ staff' \in [Staff -> StaffState]
      /\ \A x \in Staff : x # s => staff'[x] = staff[x]
      /\ staff'[s].pc # "idle" => /\ staff'[s].item = staff[s].item
                                  /\ staff'[s].act = staff[s].act
  BY StaffMovesType
<1>3. staff[s].pc = "source" /\ staff'[s].pc \in {"idle"}
  BY DEF TypeOK, StaffMoves, IdleStaff, StaffState
<1>4. budget' \in Budget
  BY StatementType
<1>5. TypeOK'
  <2>1. hidden' \in [Content -> BOOLEAN]
    BY DEF TypeOK, SetHidden
  <2>2. hiders' \in [Content -> SUBSET {"ai", "staff", "flags"}]
    BY DEF TypeOK, SetHidden
  <2> QED
    BY <1>2, <1>4, <2>1, <2>2 DEF TypeOK
<1>6. BusyInv'
  BY <1>1, <1>2, <1>3 DEF BusyInv
<1>7. GroundsInv'
  BY <1>1, <1>2, <1>3 DEF GroundsInv
<1>8. HiddenHasGrounds'
  <2>1. \A c \in Content :
          hidden'[c] => hidden[c] \/ (c = staff[s].item /\ staff[s].act # "restoreContent")
    <3>1. CASE staff[s].act # "restoreContent"
      BY <3>1 DEF SetHidden, TypeOK
    <3>2. CASE ~(staff[s].act # "restoreContent")
      <4>1. (staff[s].act # "restoreContent") = FALSE
        BY <3>2
      <4>2. hidden' \in {hidden, [hidden EXCEPT ![staff[s].item] = FALSE]}
        BY <4>1 DEF SetHidden
      <4> QED
        <5>1. CASE hidden' = hidden
          BY <5>1
        <5>2. CASE hidden' = [hidden EXCEPT ![staff[s].item] = FALSE]
          BY <5>2 DEF TypeOK
        <5> QED
          BY <4>2, <5>1, <5>2
    <3> QED
      BY <3>1, <3>2
  <2>2. staff[s].act # "restoreContent" => "staff" \in Grounds(staff[s].item)
    BY <1>3 DEF GroundsInv, Grounds
  <2>3. \A c \in Content : Grounds(c)' = Grounds(c)
    BY DEF Grounds
  <2> QED
    BY <2>1, <2>2, <2>3 DEF HiddenHasGrounds
<1> QED
  BY <1>5, <1>6, <1>7, <1>8

LEMMA CrashStaffStep ==
  ASSUME IndInv, NEW s \in Staff, CrashStaff(s)
  PROVE  IndInv'
<1> USE DEF IndInv, CrashStaff, Crashing, dbVars, queueVars, history
<1>1. TypeOK'
  <2>1. staff' \in [Staff -> StaffState]
    BY IdleStaffType DEF TypeOK
  <2>2. budget' \in Budget
    BY DEF TypeOK, Budget
  <2> QED
    BY <2>1, <2>2 DEF TypeOK
<1>2. BusyInv'
  BY IdleStaffType DEF BusyInv, TypeOK
<1>3. GroundsInv'
  BY IdleStaffType DEF GroundsInv, TypeOK
<1>4. HiddenHasGrounds'
  BY DEF HiddenHasGrounds, Grounds
<1> QED
  BY <1>1, <1>2, <1>3, <1>4

LEMMA StaffSteps ==
  ASSUME IndInv, NEW s \in Staff, StaffStep(s)
  PROVE  IndInv'
BY ResolveQueueStep, ResolveSourceStep, ResolveAuditStep, ResolveLogStep,
   AdminUpsertStep, AdminSourceStep DEF StaffStep

----------------------------------------------------------------------------
(* Reporters                                                               *)

LEMMA FlagInsertStep ==
  ASSUME IndInv, NEW r \in Reporters, NEW c \in Content, FlagInsert(r, c)
  PROVE  IndInv'
<1> USE DEF IndInv, FlagInsert, queueVars, history
<1>1. TypeOK'
  <2>1. reporter' \in [Reporters -> ReporterState]
    BY DEF TypeOK, ReporterState
  <2> QED
    BY <2>1 DEF TypeOK
<1>2. BusyInv'
  BY DEF BusyInv, TypeOK
<1>3. \A d \in Content : Cardinality(flags[d]) >= FlagThreshold =>
        Cardinality(flags'[d]) >= FlagThreshold
  <2>1. flags[c] \subseteq Reporters
    BY DEF TypeOK
  <2>2. IsFiniteSet(flags[c])
    BY <2>1, FS_Subset, ConstantsAssumption
  <2>3. Cardinality(flags[c]) \in Nat
    BY <2>2, FS_CardinalityType
  <2>4. Cardinality(flags[c] \cup {r}) = Cardinality(flags[c]) + 1
    BY <2>2, FS_AddElement
  <2>5. \A d \in Content : flags'[d] = IF d = c THEN flags[c] \cup {r} ELSE flags[d]
    BY DEF TypeOK
  <2> QED
    BY <2>3, <2>4, <2>5 DEF FlagThreshold
<1>4. GroundsInv'
  BY <1>3 DEF GroundsInv, BusyInv, TypeOK
<1>5. HiddenHasGrounds'
  <2>1. \A d \in Content : Grounds(d) \subseteq Grounds(d)'
    BY <1>3 DEF Grounds
  <2> QED
    BY <2>1 DEF HiddenHasGrounds
<1> QED
  BY <1>1, <1>2, <1>4, <1>5

LEMMA FlagCountStep ==
  ASSUME IndInv, NEW r \in Reporters, NEW ok \in BOOLEAN, FlagCount(r, ok)
  PROVE  IndInv'
<1> USE DEF IndInv, FlagCount, dbVars, queueVars, history
<1>1. reporter[r] \in ReporterState /\ reporter[r].item \in Content
  BY DEF TypeOK, BusyInv
<1>2. /\ reporter' \in [Reporters -> ReporterState]
      /\ reporter'[r].pc = "hide" =>
           /\ Cardinality(flags[reporter[r].item]) >= FlagThreshold
           /\ reporter'[r].item = reporter[r].item
      /\ reporter'[r].pc # "idle" => reporter'[r].item = reporter[r].item
      /\ \A x \in Reporters : x # r => reporter'[x] = reporter[x]
  BY <1>1 DEF TypeOK, ReporterState, IdleReporter
<1>3. budget' \in Budget
  BY StatementType
<1>4. TypeOK'
  BY <1>2, <1>3 DEF TypeOK
<1>5. BusyInv'
  BY <1>1, <1>2 DEF BusyInv
<1>6. GroundsInv'
  BY <1>2 DEF GroundsInv
<1>7. HiddenHasGrounds'
  BY DEF HiddenHasGrounds, Grounds
<1> QED
  BY <1>4, <1>5, <1>6, <1>7

LEMMA FlagHideStep ==
  ASSUME IndInv, NEW r \in Reporters, NEW ok \in BOOLEAN, FlagHide(r, ok)
  PROVE  IndInv'
<1> USE DEF IndInv, FlagHide, queueVars
<1>1. /\ reporter' \in [Reporters -> ReporterState]
      /\ reporter'[r].pc = "idle"
      /\ \A x \in Reporters : x # r => reporter'[x] = reporter[x]
  BY DEF TypeOK, ReporterState, IdleReporter
<1>2. TypeOK'
  <2>1. budget' \in Budget
    BY StatementType
  <2>2. hidden' \in [Content -> BOOLEAN]
    BY DEF TypeOK, SetHidden
  <2>3. hiders' \in [Content -> SUBSET {"ai", "staff", "flags"}]
    BY DEF TypeOK, SetHidden
  <2> QED
    BY <1>1, <2>1, <2>2, <2>3 DEF TypeOK
<1>3. BusyInv'
  BY <1>1 DEF BusyInv
<1>4. GroundsInv'
  BY <1>1 DEF GroundsInv
<1>5. HiddenHasGrounds'
  <2>1. "flags" \in Grounds(reporter[r].item)
    BY DEF GroundsInv, Grounds
  <2>2. \A c \in Content : hidden'[c] => hidden[c] \/ c = reporter[r].item
    BY DEF SetHidden, TypeOK
  <2>3. \A c \in Content : Grounds(c)' = Grounds(c)
    BY DEF Grounds
  <2> QED
    BY <2>1, <2>2, <2>3 DEF HiddenHasGrounds
<1> QED
  BY <1>2, <1>3, <1>4, <1>5

LEMMA CrashReporterStep ==
  ASSUME IndInv, NEW r \in Reporters, CrashReporter(r)
  PROVE  IndInv'
<1> USE DEF IndInv, CrashReporter, Crashing, dbVars, queueVars, history
<1>1. /\ reporter' \in [Reporters -> ReporterState]
      /\ reporter'[r].pc = "idle"
      /\ \A x \in Reporters : x # r => reporter'[x] = reporter[x]
  BY DEF TypeOK, ReporterState, IdleReporter
<1>2. budget' \in Budget
  BY DEF TypeOK, Budget
<1>3. TypeOK'
  BY <1>1, <1>2 DEF TypeOK
<1>4. BusyInv'
  BY <1>1 DEF BusyInv
<1>5. GroundsInv'
  BY <1>1 DEF GroundsInv
<1>6. HiddenHasGrounds'
  BY DEF HiddenHasGrounds, Grounds
<1> QED
  BY <1>3, <1>4, <1>5, <1>6

LEMMA ReporterSteps ==
  ASSUME IndInv, NEW r \in Reporters, ReporterStep(r)
  PROVE  IndInv'
BY FlagCountStep, FlagHideStep DEF ReporterStep

----------------------------------------------------------------------------
(* The invariant                                                           *)

LEMMA InitInv == Init => IndInv
<1> SUFFICES ASSUME Init PROVE IndInv
  OBVIOUS
<1> USE DEF Init
<1>1. TypeOK
  <2>1. worker \in [Workers -> WorkerState]
    BY NoPlanType DEF WorkerState, IdleWorker
  <2>2. staff \in [Staff -> StaffState]
    BY IdleStaffType
  <2>3. reporter \in [Reporters -> ReporterState]
    BY DEF ReporterState, IdleReporter
  <2>4. job \in [Content -> Job]
    BY DEF Job, NoJob
  <2>5. window \in [Content -> 0..LookbackSweeps]
    BY ConstantsAssumption
  <2>6. budget \in Budget
    BY DEF Budget
  <2> QED
    BY <2>1, <2>2, <2>3, <2>4, <2>5, <2>6 DEF TypeOK
<1>2. BusyInv
  BY DEF BusyInv, IdleWorker, IdleStaff, IdleReporter
<1>3. GroundsInv
  BY DEF GroundsInv, IdleWorker, IdleStaff, IdleReporter
<1>4. HiddenHasGrounds
  BY DEF HiddenHasGrounds
<1> QED
  BY <1>1, <1>2, <1>3, <1>4 DEF IndInv

LEMMA NextInv == IndInv /\ [Next]_vars => IndInv'
<1> SUFFICES ASSUME IndInv, [Next]_vars PROVE IndInv'
  OBVIOUS
<1>1. CASE UNCHANGED vars
  BY <1>1, QueueOnly DEF vars, dbVars, queueVars, actors, history, IndInv, TypeOK
<1>2. CASE Next
  BY <1>2, PostStep, FetchStep, StallStep, PurgeStep, SweepQueryStep,
     SweepAddStep, CrashSweepStep, WorkerSteps, CrashWorkerStep,
     ResolveReadStep, AdminLookupStep, StaffSteps, CrashStaffStep,
     FlagInsertStep, ReporterSteps, CrashReporterStep DEF Next
<1> QED
  BY <1>1, <1>2

(* IndInv holds in every reachable state.                                  *)
THEOREM Invariance == Spec => []IndInv
BY InitInv, NextInv, PTL DEF Spec

(* Every table and every process keeps its declared shape.                 *)
THEOREM TypeCorrect == Spec => []TypeOK
<1>1. IndInv => TypeOK
  BY DEF IndInv
<1> QED
  BY <1>1, Invariance, PTL

(* No interleaving, failure, crash or redelivery of the worker, the flag   *)
(* handler and the moderators hides an item on which nobody had grounds.   *)
THEOREM NoHidingWithoutGrounds == Spec => []HiddenHasGrounds
<1>1. IndInv => HiddenHasGrounds
  BY DEF IndInv
<1> QED
  BY <1>1, Invariance, PTL


----------------------------------------------------------------------------
(* What is owed to content.  While no statement has failed and no process  *)
(* has died, whoever holds a plan that calls for a review or for the       *)
(* safety resources is still at work on it, or has done it; and of the     *)
(* flags that reach the threshold the last has yet to be counted.          *)

Untroubled == budget.faults = 0 /\ budget.crashes = 0

ReviewPcs == {"auditLookup", "auditWrite", "hide", "reviewLookup", "reviewWrite"}
PlanPcs   == ReviewPcs \cup {"finish"}

OwesReview(k, c) == k.item = c /\ k.pc \in ReviewPcs /\ k.plan.needsReview
OwesDm(k, c)     == k.item = c /\ k.pc \in PlanPcs /\ k.plan.sendSafetyDm

WillReview(c) == review[c].row \/ \E w \in Workers : OwesReview(worker[w], c)
WillTell(c)   == "safety_resources" \in notices[c] \/ \E w \in Workers : OwesDm(worker[w], c)

PlanOK(w) ==
  worker[w].pc # "idle" /\ worker[w].plan.action \in {"hide", "remove"} =>
    worker[w].plan.needsReview \/ \E v \in judged[worker[w].item] : RemovesUnreviewed(v)

AiHideOK(c) ==
  "ai" \in hiders[c] => WillReview(c) \/ \E v \in judged[c] : RemovesUnreviewed(v)

CrisisOK(c) == (\E v \in judged[c] : CrisisSignal(v)) => WillReview(c) /\ WillTell(c)

VerdictsInv ==
  /\ \A w \in Workers : PlanOK(w)
  /\ Untroubled => \A c \in Content : AiHideOK(c) /\ CrisisOK(c)

WillCount(c) == \E r \in Reporters : reporter[r].item = c /\ reporter[r].pc \in {"count", "hide"}

FlagsInv ==
  Untroubled =>
    \A c \in Content :
      c \in Flaggable /\ Cardinality(flags[c]) >= FlagThreshold => "flags" \in hiders[c] \/ WillCount(c)

CareInv == IndInv /\ VerdictsInv /\ FlagsInv

(* decide() leaves a human out of what it hides only when it removes at    *)
(* once, and has a crisis reviewed and its author told.                    *)
LEMMA DecideReviews ==
  ASSUME NEW v \in Verdict
  PROVE  /\ Decide(Mode, v).action \in {"hide", "remove"} =>
              Decide(Mode, v).needsReview \/ RemovesUnreviewed(v)
         /\ CrisisSignal(v) => Decide(Mode, v).needsReview /\ Decide(Mode, v).sendSafetyDm
<1>1. CrisisSignal(v) => Decide(Mode, v) = CrisisOverride
  BY DEF Decide
<1>2. /\ CrisisOverride.action = "allow" /\ CrisisOverride.needsReview
      /\ CrisisOverride.sendSafetyDm
  BY DEF CrisisOverride, Result
<1>3. ASSUME ~CrisisSignal(v), Decide(Mode, v).action \in {"hide", "remove"},
             ~Decide(Mode, v).needsReview
      PROVE  RemovesUnreviewed(v)
  <2>1. MayHide(v)
    BY <1>3, DecideHides
  <2>2. CASE v.verdict = "hide"
    <3>1. Decide(Mode, v) = HandleHide(Mode, v)
      BY <1>3, <2>1, <2>2 DEF Decide, MayHide
    <3>2. HandleHide(Mode, v).needsReview
      BY DEF HandleHide, Result
    <3> QED
      BY <1>3, <3>1, <3>2
  <2>3. CASE v.verdict = "remove"
    <3>1. Decide(Mode, v) = HandleRemove(Mode, v)
      BY <1>3, <2>1, <2>3 DEF Decide, MayHide
    <3>2. RemoveInMode(Mode, v).needsReview
      BY DEF RemoveInMode, Result
    <3>3. Mode = "full" /\ Decide(Mode, v) = RemoveBySeverity(v)
      BY <1>3, <2>1, <3>1, <3>2 DEF HandleRemove, MayHide
    <3>4. v.severity = "high" /\ v.confidence >= AutoRemove /\ HasInstantCategory(v)
      <4>1. v.severity \in Severities
        BY DEF Verdict
      <4>2. ASSUME ~(v.severity = "high" /\ v.confidence >= AutoRemove /\ HasInstantCategory(v))
            PROVE  RemoveBySeverity(v).needsReview
        BY <4>1, <4>2 DEF RemoveBySeverity, Result, Severities
      <4> QED
        BY <1>3, <3>3, <4>2
    <3> QED
      BY <1>3, <2>3, <3>3, <3>4 DEF RemovesUnreviewed
  <2> QED
    BY <2>1, <2>2, <2>3 DEF MayHide
<1> QED
  BY <1>1, <1>2, <1>3

(* Trouble is not forgotten.                                               *)
LEMMA TroubleStays ==
  ASSUME IndInv,
         \/ UNCHANGED budget
         \/ \E n \in Nat : Failing(n)
         \/ Crashing
         \/ budget' = [budget EXCEPT !.stalls = @ + 1]
         \/ budget' = [budget EXCEPT !.purges = @ + 1],
         Untroubled'
  PROVE  Untroubled
<1>1. budget \in Budget
  BY DEF IndInv, TypeOK
<1> QED
  BY <1>1 DEF Budget, Untroubled, Failing, Crashing

LEMMA StatementGoesWell ==
  ASSUME IndInv, NEW ok \in BOOLEAN, Statement(ok), Untroubled'
  PROVE  ok /\ Untroubled
<1>1. budget \in Budget
  BY DEF IndInv, TypeOK
<1> QED
  BY <1>1 DEF Budget, Untroubled, Failing, Statement

LEMMA CrashIsTrouble ==
  ASSUME IndInv, Crashing
  PROVE  ~Untroubled'
<1>1. budget \in Budget
  BY DEF IndInv, TypeOK
<1> QED
  BY <1>1 DEF Budget, Untroubled, Crashing

(* Steps of which verdicts and flags, respectively, take no notice.        *)
LEMMA VerdictsAside ==
  ASSUME VerdictsInv, UNCHANGED <<worker, judged>>,
         \A c \in Content : review[c].row => review'[c].row,
         \A c \in Content : notices[c] \subseteq notices'[c],
         \A c \in Content : "ai" \in hiders'[c] => "ai" \in hiders[c],
         Untroubled' => Untroubled
  PROVE  VerdictsInv'
<1>1. \A c \in Content : (WillReview(c) => WillReview(c)') /\ (WillTell(c) => WillTell(c)')
  BY DEF WillReview, WillTell
<1>2. \A w \in Workers : PlanOK(w)'
  BY DEF VerdictsInv, PlanOK
<1>3. ASSUME Untroubled', NEW c \in Content PROVE AiHideOK(c)' /\ CrisisOK(c)'
  BY <1>1, <1>3 DEF VerdictsInv, AiHideOK, CrisisOK
<1> QED
  BY <1>2, <1>3 DEF VerdictsInv

LEMMA FlagsAside ==
  ASSUME FlagsInv, UNCHANGED <<flags, reporter>>,
         \A c \in Content : "flags" \in hiders[c] => "flags" \in hiders'[c],
         Untroubled' => Untroubled
  PROVE  FlagsInv'
BY DEF FlagsInv, WillCount

(* A step of a worker.                                                     *)
LEMMA WorkerCares ==
  ASSUME IndInv, VerdictsInv, NEW w \in Workers,
         \A x \in Workers : x # w => worker'[x] = worker[x],
         \A c \in Content : review[c].row => review'[c].row,
         \A c \in Content : notices[c] \subseteq notices'[c],
         \A c \in Content : judged[c] \subseteq judged'[c],
         Untroubled' => Untroubled,
         PlanOK(w)',
         \A c \in Content : Untroubled' /\ OwesReview(worker[w], c) => WillReview(c)',
         \A c \in Content : Untroubled' /\ OwesDm(worker[w], c) => WillTell(c)',
         \A c \in Content : Untroubled' /\ "ai" \in hiders'[c] =>
           "ai" \in hiders[c] \/ WillReview(c)' \/ \E v \in judged'[c] : RemovesUnreviewed(v),
         \A c \in Content : Untroubled' /\ (\E v \in judged'[c] : CrisisSignal(v)) =>
           (\E v \in judged[c] : CrisisSignal(v)) \/ (WillReview(c)' /\ WillTell(c)')
  PROVE  VerdictsInv'
<1>1. ASSUME NEW c \in Content, Untroubled', WillReview(c) PROVE WillReview(c)'
  <2>1. CASE review[c].row
    BY <2>1 DEF WillReview
  <2>2. CASE OwesReview(worker[w], c)
    BY <1>1, <2>2
  <2>3. ASSUME NEW x \in Workers, x # w, OwesReview(worker[x], c) PROVE WillReview(c)'
    BY <2>3 DEF WillReview
  <2> QED
    BY <1>1, <2>1, <2>2, <2>3 DEF WillReview
<1>2. ASSUME NEW c \in Content, Untroubled', WillTell(c) PROVE WillTell(c)'
  <2>1. CASE "safety_resources" \in notices[c]
    BY <2>1 DEF WillTell
  <2>2. CASE OwesDm(worker[w], c)
    BY <1>2, <2>2
  <2>3. ASSUME NEW x \in Workers, x # w, OwesDm(worker[x], c) PROVE WillTell(c)'
    BY <2>3 DEF WillTell
  <2> QED
    BY <1>2, <2>1, <2>2, <2>3 DEF WillTell
<1>3. ASSUME NEW x \in Workers, x # w PROVE PlanOK(x)'
  <2>1. worker[x].pc # "idle" => worker[x].item \in Content
    BY DEF IndInv, BusyInv
  <2> QED
    BY <1>3, <2>1 DEF VerdictsInv, PlanOK, RemovesUnreviewed
<1>4. ASSUME Untroubled', NEW c \in Content PROVE AiHideOK(c)'
  BY <1>1, <1>4 DEF VerdictsInv, AiHideOK, RemovesUnreviewed
<1>5. ASSUME Untroubled', NEW c \in Content PROVE CrisisOK(c)'
  BY <1>1, <1>2, <1>5 DEF VerdictsInv, CrisisOK
<1> QED
  BY <1>3, <1>4, <1>5 DEF VerdictsInv

(* A step of a worker that carries out its plan.                           *)
LEMMA WorkerCarriesOut ==
  ASSUME IndInv, VerdictsInv, NEW w \in Workers,
         \A x \in Workers : x # w => worker'[x] = worker[x],
         worker[w].pc \in ReviewPcs, worker'[w].pc \in PlanPcs,
         worker'[w].item = worker[w].item, worker'[w].plan = worker[w].plan,
         UNCHANGED judged, Untroubled' => Untroubled,
         \A c \in Content : review[c].row => review'[c].row,
         \A c \in Content : notices[c] \subseteq notices'[c],
         Untroubled' /\ worker[w].plan.needsReview =>
           worker'[w].pc \in ReviewPcs \/ review'[worker[w].item].row,
         \A c \in Content : "ai" \in hiders'[c] =>
           "ai" \in hiders[c] \/ (c = worker[w].item /\ worker[w].plan.action \in {"hide", "remove"})
  PROVE  VerdictsInv'
<1>1. \A c \in Content : Untroubled' /\ OwesReview(worker[w], c) => WillReview(c)'
  BY DEF OwesReview, WillReview
<1>2. \A c \in Content : OwesDm(worker[w], c) => WillTell(c)'
  BY DEF OwesDm, WillTell
<1>3. PlanOK(w) /\ PlanOK(w)'
  BY DEF VerdictsInv, PlanOK, ReviewPcs
<1>4. ASSUME NEW c \in Content, Untroubled', "ai" \in hiders'[c]
      PROVE  "ai" \in hiders[c] \/ WillReview(c)' \/ \E v \in judged'[c] : RemovesUnreviewed(v)
  <2>1. CASE c = worker[w].item /\ worker[w].plan.action \in {"hide", "remove"}
    <3>1. CASE worker[w].plan.needsReview
      BY <1>1, <1>4, <2>1, <3>1 DEF OwesReview
    <3>2. CASE \E v \in judged[worker[w].item] : RemovesUnreviewed(v)
      BY <2>1, <3>2
    <3> QED
      BY <1>3, <2>1, <3>1, <3>2 DEF PlanOK, ReviewPcs
  <2> QED
    BY <1>4, <2>1
<1>5. \A c \in Content : judged[c] \subseteq judged'[c]
  OBVIOUS
<1>6. ASSUME NEW c \in Content, NEW v \in judged'[c], CrisisSignal(v)
      PROVE  \E u \in judged[c] : CrisisSignal(u)
  BY <1>6
<1>7. \A c \in Content : Untroubled' /\ (\E v \in judged'[c] : CrisisSignal(v)) =>
        (\E v \in judged[c] : CrisisSignal(v)) \/ (WillReview(c)' /\ WillTell(c)')
  BY <1>6
<1>8. \A c \in Content : Untroubled' /\ "ai" \in hiders'[c] =>
        "ai" \in hiders[c] \/ WillReview(c)' \/ \E v \in judged'[c] : RemovesUnreviewed(v)
  BY <1>4
<1>9. \A c \in Content : Untroubled' /\ OwesDm(worker[w], c) => WillTell(c)'
  BY <1>2
<1> QED
  BY <1>1, <1>3, <1>5, <1>7, <1>8, <1>9, WorkerCares

LEMMA HidersGrow ==
  ASSUME IndInv, NEW c \in Content, NEW value \in BOOLEAN, NEW who, SetHidden(c, value, who)
  PROVE  \A d \in Content : /\ hiders[d] \subseteq hiders'[d]
                            /\ hiders'[d] \subseteq hiders[d] \cup {who}
                            /\ d # c => hiders'[d] = hiders[d]
                            /\ d = c /\ value => who \in hiders'[d]
<1>1. CASE value
  BY <1>1 DEF SetHidden, IndInv, TypeOK
<1>2. CASE ~value
  <2>1. hiders' = [hiders EXCEPT ![c] = hiders[c]]
    BY <1>2 DEF SetHidden
  <2> QED
    BY <1>2, <2>1 DEF IndInv, TypeOK
<1> QED
  BY <1>1, <1>2

LEMMA QueueCares ==
  ASSUME CareInv,
         \/ \E c \in Content : \/ \E enqueued \in BOOLEAN : Post(c, enqueued)
                              \/ Stall(c) \/ Purge(c)
                              \/ \E ok \in BOOLEAN : SweepAdd(c, ok)
         \/ SweepQuery \/ CrashSweep
  PROVE  VerdictsInv' /\ FlagsInv'
<1>1. UNCHANGED <<worker, judged, review, notices, hiders, flags, reporter>>
  BY DEF Post, Stall, Purge, SweepAdd, SweepQuery, CrashSweep, dbVars, actors, history
<1>2. Untroubled' => Untroubled
  <2>1. CASE \E c \in Content : Purge(c)
    BY <2>1, TroubleStays DEF Purge, CareInv
  <2>2. CASE \E c \in Content : Stall(c)
    BY <2>2, TroubleStays DEF Stall, CareInv
  <2>3. CASE \E c \in Content, ok \in BOOLEAN : SweepAdd(c, ok)
    BY <2>3, StatementGoesWell DEF SweepAdd, CareInv
  <2>4. CASE CrashSweep
    BY <2>4, TroubleStays DEF CrashSweep, CareInv
  <2>5. CASE UNCHANGED budget
    BY <2>5 DEF Untroubled
  <2> QED
    BY <2>1, <2>2, <2>3, <2>4, <2>5 DEF Post, SweepQuery
<1>3. VerdictsInv'
  BY <1>1, <1>2, VerdictsAside DEF CareInv
<1>4. FlagsInv'
  BY <1>1, <1>2, FlagsAside DEF CareInv
<1> QED
  BY <1>3, <1>4

LEMMA StaffCares ==
  ASSUME CareInv, NEW s \in Staff,
         \/ \E c \in Content, act \in ReviewActs : ResolveRead(s, c, act)
         \/ \E c \in Content, act \in AdminActs, ok \in BOOLEAN : AdminLookup(s, c, act, ok)
         \/ StaffStep(s)
         \/ CrashStaff(s)
  PROVE  VerdictsInv' /\ FlagsInv'
<1>1. UNCHANGED <<worker, judged, notices, flags, reporter>>
  BY DEF ResolveRead, AdminLookup, StaffStep, ResolveQueue, ResolveSource, ResolveAudit, ResolveLog,
         AdminUpsert, AdminSource, CrashStaff, dbVars, history
<1>2. Untroubled' => Untroubled
  <2>1. CASE \E c \in Content, act \in ReviewActs : ResolveRead(s, c, act)
    BY <2>1 DEF ResolveRead, Untroubled
  <2>2. CASE CrashStaff(s)
    BY <2>2, TroubleStays DEF CrashStaff, CareInv
  <2>3. CASE \E ok \in BOOLEAN : Statement(ok)
    BY <2>3, StatementGoesWell DEF CareInv
  <2> QED
    BY <2>1, <2>2, <2>3 DEF AdminLookup, StaffStep, ResolveQueue, ResolveSource, ResolveAudit,
       ResolveLog, AdminUpsert, AdminSource
<1>3. ASSUME NEW c \in Content PROVE review[c].row => review'[c].row
  <2>1. CASE \E ok \in BOOLEAN : ResolveQueue(s, ok)
    BY <2>1 DEF ResolveQueue, CareInv, IndInv, TypeOK
  <2>2. CASE UNCHANGED review
    BY <2>2
  <2> QED
    BY <2>1, <2>2 DEF ResolveRead, AdminLookup, StaffStep, ResolveSource, ResolveAudit, ResolveLog,
       AdminUpsert, AdminSource, CrashStaff, dbVars
<1>4. ASSUME NEW c \in Content
      PROVE  hiders[c] \subseteq hiders'[c] /\ hiders'[c] \subseteq hiders[c] \cup {"staff"}
  <2>1. CASE \E ok \in BOOLEAN : ResolveSource(s, ok)
    <3>1. staff[s].item \in Content /\ (staff[s].act = "hide") \in BOOLEAN
      BY <2>1 DEF ResolveSource, StaffMoves, CareInv, IndInv, BusyInv
    <3> QED
      BY <2>1, <3>1, HidersGrow DEF ResolveSource, CareInv
  <2>2. CASE \E ok \in BOOLEAN : AdminSource(s, ok)
    <3>1. staff[s].item \in Content /\ (staff[s].act # "restoreContent") \in BOOLEAN
      BY <2>2 DEF AdminSource, StaffMoves, CareInv, IndInv, BusyInv
    <3> QED
      BY <2>2, <3>1, HidersGrow DEF AdminSource, CareInv
  <2>3. CASE UNCHANGED hiders
    BY <2>3
  <2> QED
    BY <2>1, <2>2, <2>3 DEF ResolveRead, AdminLookup, StaffStep, ResolveQueue, ResolveAudit,
       ResolveLog, AdminUpsert, CrashStaff, history
<1>5. VerdictsInv'
  BY <1>1, <1>2, <1>3, <1>4, VerdictsAside DEF CareInv
<1>6. FlagsInv'
  BY <1>1, <1>2, <1>4, FlagsAside DEF CareInv
<1> QED
  BY <1>5, <1>6

(* Of the reporters of an item the last counts all flags.                  *)
LEMMA ReportersCare ==
  ASSUME CareInv, NEW r \in Reporters,
         (\E c \in Content : FlagInsert(r, c)) \/ ReporterStep(r) \/ CrashReporter(r)
  PROVE  VerdictsInv' /\ FlagsInv'
<1>1. UNCHANGED <<worker, judged, review, notices>>
  BY DEF FlagInsert, ReporterStep, FlagCount, FlagHide, CrashReporter, dbVars, history
<1>2. Untroubled' => Untroubled
  <2>1. CASE UNCHANGED budget
    BY <2>1 DEF Untroubled
  <2>2. CASE CrashReporter(r)
    BY <2>2, TroubleStays DEF CrashReporter, CareInv
  <2>3. CASE \E ok \in BOOLEAN : Statement(ok)
    BY <2>3, StatementGoesWell DEF CareInv
  <2> QED
    BY <2>1, <2>2, <2>3 DEF FlagInsert, ReporterStep, FlagCount, FlagHide
<1>3. ASSUME NEW c \in Content
      PROVE  hiders[c] \subseteq hiders'[c] /\ hiders'[c] \subseteq hiders[c] \cup {"flags"}
  <2>1. CASE \E ok \in BOOLEAN : FlagHide(r, ok)
    <3>1. reporter[r].item \in Content
      BY <2>1 DEF FlagHide, CareInv, IndInv, BusyInv
    <3> QED
      BY <2>1, <3>1, HidersGrow DEF FlagHide, CareInv
  <2>2. CASE UNCHANGED hiders
    BY <2>2
  <2> QED
    BY <2>1, <2>2 DEF FlagInsert, ReporterStep, FlagCount, CrashReporter, history
<1>4. VerdictsInv'
  BY <1>1, <1>2, <1>3, VerdictsAside DEF CareInv
<1>5. \A x \in Reporters : x # r => reporter'[x] = reporter[x]
  BY DEF FlagInsert, ReporterStep, FlagCount, FlagHide, CrashReporter, CareInv, IndInv, TypeOK
<1>6. ASSUME Untroubled', NEW c \in Content, c \in Flaggable, Cardinality(flags'[c]) >= FlagThreshold
      PROVE  "flags" \in hiders'[c] \/ WillCount(c)'
  <2>1. CASE FlagInsert(r, c)
    <3>1. reporter'[r].item = c /\ reporter'[r].pc = "count"
      BY <2>1 DEF FlagInsert, CareInv, IndInv, TypeOK
    <3> QED
      BY <3>1 DEF WillCount
  <2>2. CASE flags'[c] = flags[c]
    <3>1. "flags" \in hiders[c] \/ WillCount(c)
      BY <1>2, <1>6, <2>2 DEF CareInv, FlagsInv
    <3>2. CASE "flags" \in hiders[c]
      BY <1>3, <3>2
    <3>3. ASSUME NEW x \in Reporters, x # r, reporter[x].item = c, reporter[x].pc \in {"count", "hide"}
          PROVE  WillCount(c)'
      BY <1>5, <3>3 DEF WillCount
    <3>4. CASE reporter[r].item = c /\ reporter[r].pc \in {"count", "hide"}
      <4>1. CASE \E ok \in BOOLEAN : FlagCount(r, ok)
        <5>1. PICK ok \in BOOLEAN : FlagCount(r, ok)
          BY <4>1
        <5>2. ok
          BY <1>6, <5>1, StatementGoesWell DEF FlagCount, CareInv
        <5>3. reporter' = [reporter EXCEPT ![r] = [reporter[r] EXCEPT !.pc = "hide"]]
          BY <1>6, <2>2, <3>4, <5>1, <5>2 DEF FlagCount
        <5>4. reporter'[r].item = c /\ reporter'[r].pc = "hide"
          BY <3>4, <5>3 DEF CareInv, IndInv, TypeOK, ReporterState
        <5> QED
          BY <5>4 DEF WillCount
      <4>2. CASE \E ok \in BOOLEAN : FlagHide(r, ok)
        <5>1. PICK ok \in BOOLEAN : FlagHide(r, ok)
          BY <4>2
        <5>2. ok
          BY <1>6, <5>1, StatementGoesWell DEF FlagHide, CareInv
        <5>3. SetHidden(c, TRUE, "flags")
          BY <3>4, <5>1, <5>2 DEF FlagHide
        <5> QED
          BY <5>3, HidersGrow DEF CareInv
      <4>3. CASE CrashReporter(r)
        BY <1>6, <4>3, CrashIsTrouble DEF CrashReporter, CareInv
      <4>4. ~\E d \in Content : FlagInsert(r, d)
        BY <3>4 DEF FlagInsert
      <4> QED
        BY <4>1, <4>2, <4>3, <4>4 DEF ReporterStep
    <3> QED
      BY <3>1, <3>2, <3>3, <3>4 DEF WillCount
  <2> QED
    BY <2>1, <2>2 DEF FlagInsert, ReporterStep, FlagCount, FlagHide, CrashReporter, dbVars, CareInv,
       IndInv, TypeOK
<1> QED
  BY <1>4, <1>6 DEF FlagsInv

(* A worker that makes up its mind.                                        *)
LEMMA PlanCares ==
  ASSUME CareInv, NEW w \in Workers, NEW plan \in EnforcementResult, Plan(w, plan),
         UNCHANGED budget,
         \A c \in Content : judged[c] \subseteq judged'[c],
         \A c \in Content : c # worker[w].item => judged'[c] = judged[c],
         plan.action \in {"hide", "remove"} =>
           plan.needsReview \/ \E v \in judged'[worker[w].item] : RemovesUnreviewed(v),
         \/ judged' = judged
         \/ \E v \in Verdicts :
              /\ judged'[worker[w].item] = judged[worker[w].item] \cup {v}
              /\ CrisisSignal(v) => plan.needsReview /\ plan.sendSafetyDm
  PROVE  VerdictsInv'
<1>1. /\ worker[w] \in WorkerState /\ worker[w].item \in Content /\ worker[w].pc = "judge"
  BY DEF Plan, CareInv, IndInv, TypeOK, BusyInv
<1>2. UNCHANGED <<review, notices, hiders>> /\ (Untroubled' => Untroubled)
  BY DEF Plan, dbVars, Untroubled
<1>3. /\ worker'[w] = [worker[w] EXCEPT !.pc = "auditLookup", !.plan = plan]
      /\ \A x \in Workers : x # w => worker'[x] = worker[x]
  BY DEF Plan, CareInv, IndInv, TypeOK
<1>4. /\ worker'[w].pc = "auditLookup" /\ worker'[w].plan = plan
      /\ worker'[w].item = worker[w].item
  BY <1>1, <1>3 DEF WorkerState
<1>5. PlanOK(w)'
  BY <1>4 DEF PlanOK, RemovesUnreviewed
<1>6. \A c \in Content : ~OwesReview(worker[w], c) /\ ~OwesDm(worker[w], c)
  BY <1>1 DEF OwesReview, OwesDm, ReviewPcs, PlanPcs
<1>7. ASSUME NEW c \in Content, NEW v \in judged'[c], CrisisSignal(v),
             ~\E u \in judged[c] : CrisisSignal(u)
      PROVE  WillReview(c)' /\ WillTell(c)'
  <2>1. c = worker[w].item /\ plan.needsReview /\ plan.sendSafetyDm
    BY <1>7
  <2> QED
    BY <1>4, <2>1 DEF WillReview, WillTell, OwesReview, OwesDm, ReviewPcs, PlanPcs
<1>8. \A c \in Content : Untroubled' /\ (\E v \in judged'[c] : CrisisSignal(v)) =>
        (\E v \in judged[c] : CrisisSignal(v)) \/ (WillReview(c)' /\ WillTell(c)')
  BY <1>7
<1>9. IndInv /\ VerdictsInv
  BY DEF CareInv
<1> QED
  BY <1>2, <1>3, <1>5, <1>6, <1>8, <1>9, WorkerCares

LEMMA JudgeCares ==
  ASSUME CareInv, NEW w \in Workers,
         \/ BuildFails(w) \/ SkipShort(w) \/ NotConfigured(w) \/ JudgeFails(w)
         \/ \E v \in Verdicts : Judge(w, v)
  PROVE  VerdictsInv'
<1>1. ASSUME NEW plan \in EnforcementResult, plan.action = "allow", Plan(w, plan),
             UNCHANGED <<budget, judged>>
      PROVE  VerdictsInv'
  BY <1>1, PlanCares
<1>2. CASE BuildFails(w)
  <2> DEFINE plan == Result("allow", "pending_review", FALSE, "low", "")
  <2>1. plan \in EnforcementResult /\ plan.action = "allow"
    BY DEF Result, EnforcementResult, Actions, AiStatuses, Priorities, Reasons
  <2>2. Plan(w, plan) /\ UNCHANGED <<budget, judged>>
    BY <1>2 DEF BuildFails
  <2> QED
    BY <1>1, <2>1, <2>2
<1>4. CASE SkipShort(w) \/ NotConfigured(w)
  <2>1. NoPlan \in EnforcementResult /\ NoPlan.action = "allow"
    BY NoPlanType DEF NoPlan, Result
  <2>2. Plan(w, NoPlan) /\ UNCHANGED <<budget, judged>>
    BY <1>4 DEF SkipShort, NotConfigured
  <2> QED
    BY <1>1, <2>1, <2>2
<1>5. CASE JudgeFails(w)
  <2> DEFINE plan == Result("allow", "pending_review", TRUE, "normal", "system_error")
  <2>1. plan \in EnforcementResult /\ plan.action = "allow"
    BY DEF Result, EnforcementResult, Actions, AiStatuses, Priorities, Reasons
  <2>2. Plan(w, plan) /\ UNCHANGED <<budget, judged>>
    BY <1>5 DEF JudgeFails
  <2> QED
    BY <1>1, <2>1, <2>2
<1>3. ASSUME NEW v \in Verdicts, Judge(w, v) PROVE VerdictsInv'
  <2>1. v \in Verdict /\ Mode \in Modes
    BY ConstantsAssumption
  <2>2. Decide(Mode, v) \in EnforcementResult
    BY <2>1, DecideType
  <2>3. /\ worker[w].item \in Content /\ Plan(w, Decide(Mode, v)) /\ UNCHANGED budget
        /\ judged' = [judged EXCEPT ![worker[w].item] = @ \cup {v}]
    BY <1>3 DEF Judge, Plan, CareInv, IndInv, BusyInv
  <2>4. /\ judged'[worker[w].item] = judged[worker[w].item] \cup {v}
        /\ \A c \in Content : c # worker[w].item => judged'[c] = judged[c]
        /\ \A c \in Content : judged[c] \subseteq judged'[c]
    BY <2>3 DEF CareInv, IndInv, TypeOK
  <2>5. /\ Decide(Mode, v).action \in {"hide", "remove"} =>
             Decide(Mode, v).needsReview \/ \E u \in judged'[worker[w].item] : RemovesUnreviewed(u)
        /\ CrisisSignal(v) => Decide(Mode, v).needsReview /\ Decide(Mode, v).sendSafetyDm
    BY <2>1, <2>4, DecideReviews
  <2> QED
    BY <2>2, <2>3, <2>4, <2>5, PlanCares
<1> QED
  BY <1>2, <1>3, <1>4, <1>5

LEMMA AfterHidePcs ==
  ASSUME NEW plan
  PROVE  /\ AfterHide(plan) \in {"reviewLookup", "finish"}
         /\ AfterAudit(plan) \in {"hide", "reviewLookup", "finish"}
         /\ plan.needsReview => AfterHide(plan) \in ReviewPcs /\ AfterAudit(plan) \in ReviewPcs
BY DEF AfterHide, AfterAudit, ReviewPcs

LEMMA CarryingOutCares ==
  ASSUME CareInv, NEW w \in Workers, NEW ok \in BOOLEAN,
         \/ AuditLookup(w, ok) \/ AuditWrite(w, ok) \/ HideSource(w, ok)
         \/ ReviewLookup(w, ok) \/ ReviewWrite(w, ok)
  PROVE  VerdictsInv'
<1>1. worker[w] \in WorkerState /\ worker[w].item \in Content
  BY DEF AuditLookup, AuditWrite, HideSource, ReviewLookup, ReviewWrite, Step, CareInv, IndInv,
         TypeOK, BusyInv
<1>2. Statement(ok) /\ UNCHANGED judged
  BY DEF AuditLookup, AuditWrite, HideSource, ReviewLookup, ReviewWrite, history
<1>3. Untroubled' => ok /\ Untroubled
  BY <1>2, StatementGoesWell DEF CareInv
<1>4. worker[w].pc \in ReviewPcs
  BY DEF AuditLookup, AuditWrite, HideSource, ReviewLookup, ReviewWrite, Step, ReviewPcs
<1>5. \A x \in Workers : x # w => worker'[x] = worker[x]
  BY DEF AuditLookup, AuditWrite, HideSource, ReviewLookup, ReviewWrite, Step, CareInv, IndInv, TypeOK
<1>6. PICK pc \in PlanPcs :
        /\ worker'[w].pc = pc /\ worker'[w].item = worker[w].item
        /\ worker'[w].plan = worker[w].plan
        /\ worker[w].plan.needsReview => pc \in ReviewPcs \/ ReviewWrite(w, ok)
  <2>1. CASE AuditLookup(w, ok)
    BY <1>1, <2>1 DEF AuditLookup, PlanPcs, ReviewPcs, WorkerState, CareInv, IndInv, TypeOK
  <2>2. CASE AuditWrite(w, ok)
    BY <1>1, <2>2, AfterHidePcs
    DEF AuditWrite, Step, PlanPcs, ReviewPcs, WorkerState, CareInv, IndInv, TypeOK
  <2>3. CASE HideSource(w, ok)
    BY <1>1, <2>3, AfterHidePcs
    DEF HideSource, Step, PlanPcs, ReviewPcs, WorkerState, CareInv, IndInv, TypeOK
  <2>4. CASE ReviewLookup(w, ok)
    BY <1>1, <2>4 DEF ReviewLookup, PlanPcs, ReviewPcs, WorkerState, CareInv, IndInv, TypeOK
  <2>5. CASE ReviewWrite(w, ok)
    BY <1>1, <2>5 DEF ReviewWrite, Step, PlanPcs, ReviewPcs, WorkerState, CareInv, IndInv, TypeOK
  <2> QED
    BY <2>1, <2>2, <2>3, <2>4, <2>5
<1>7. /\ \A c \in Content : review[c].row => review'[c].row
      /\ ReviewWrite(w, ok) /\ ok => review'[worker[w].item].row
  <2>1. CASE ReviewWrite(w, ok)
    <3>1. PendingRow(worker[w].plan).row
      BY DEF PendingRow
    <3> QED
      BY <1>1, <2>1, <3>1 DEF ReviewWrite, CareInv, IndInv, TypeOK
  <2>2. CASE ~ReviewWrite(w, ok)
    BY <2>2 DEF AuditLookup, AuditWrite, HideSource, ReviewLookup, dbVars
  <2> QED
    BY <2>1, <2>2
<1>8. \A c \in Content : notices[c] \subseteq notices'[c]
  <2>1. CASE HideSource(w, ok)
    <3>1. PICK kind : notices' = [notices EXCEPT ![worker[w].item] = @ \cup {kind}]
      BY <2>1 DEF HideSource
    <3> QED
      BY <3>1 DEF CareInv, IndInv, TypeOK
  <2>2. CASE UNCHANGED notices
    BY <2>2
  <2> QED
    BY <2>1, <2>2 DEF AuditLookup, AuditWrite, ReviewLookup, ReviewWrite, dbVars
<1>9. ASSUME NEW c \in Content, "ai" \in hiders'[c]
      PROVE  "ai" \in hiders[c] \/ (c = worker[w].item /\ worker[w].plan.action \in {"hide", "remove"})
  <2>1. CASE HideSource(w, ok)
    <3>1. worker[w].plan.action \in {"hide", "remove"}
      BY <2>1 DEF HideSource, Step, CareInv, IndInv, GroundsInv
    <3>2. CASE ok
      <4>1. SetHidden(worker[w].item, TRUE, "ai")
        BY <2>1, <3>2 DEF HideSource
      <4>2. hiders'[c] \subseteq hiders[c] \cup {"ai"} /\ (c # worker[w].item => hiders'[c] = hiders[c])
        <5>1. IndInv /\ TRUE \in BOOLEAN
          BY DEF CareInv
        <5> QED
          BY <1>1, <4>1, <5>1, HidersGrow
      <4> QED
        BY <1>9, <3>1, <4>2
    <3>3. CASE ~ok
      BY <1>9, <2>1, <3>3 DEF HideSource
    <3> QED
      BY <3>2, <3>3
  <2>2. CASE UNCHANGED hiders
    BY <1>9, <2>2
  <2> QED
    BY <2>1, <2>2 DEF AuditLookup, AuditWrite, ReviewLookup, ReviewWrite, history
<1>10. IndInv /\ VerdictsInv
  BY DEF CareInv
<1>11. Untroubled' /\ worker[w].plan.needsReview =>
         worker'[w].pc \in ReviewPcs \/ review'[worker[w].item].row
  BY <1>3, <1>6, <1>7
<1> QED
  BY <1>2, <1>3, <1>4, <1>5, <1>6, <1>7, <1>8, <1>9, <1>10, <1>11, WorkerCarriesOut

LEMMA WorkersCare ==
  ASSUME CareInv, NEW w \in Workers,
         (\E c \in Content : Fetch(w, c)) \/ WorkerStep(w) \/ CrashWorker(w)
  PROVE  VerdictsInv' /\ FlagsInv'
<1>1. IndInv /\ VerdictsInv
  BY DEF CareInv
<1>2. \A x \in Workers : x # w => worker'[x] = worker[x]
  BY DEF Fetch, WorkerStep, CheckOverrides, BuildFails, SkipShort, NotConfigured, JudgeFails, Judge,
         Plan, AuditLookup, AuditWrite, HideSource, ReviewLookup, ReviewWrite, Step, Finish,
         CrashWorker, CareInv, IndInv, TypeOK
<1>3. ASSUME NEW c \in Content, Fetch(w, c) PROVE VerdictsInv' /\ (Untroubled' => Untroubled)
  <2>1. worker[w].pc = "idle" /\ UNCHANGED <<review, notices, judged, hiders, budget>>
    BY <1>3 DEF Fetch, dbVars, history
  <2>2. worker'[w].plan.action = "allow"
    BY <1>3 DEF Fetch, IdleWorker, NoPlan, Result, CareInv, IndInv, TypeOK
  <2>3. PlanOK(w)'
    BY <2>2 DEF PlanOK
  <2>4. \A d \in Content : ~OwesReview(worker[w], d) /\ ~OwesDm(worker[w], d)
    BY <2>1 DEF OwesReview, OwesDm, ReviewPcs, PlanPcs
  <2> QED
    BY <1>1, <1>2, <2>1, <2>3, <2>4, WorkerCares DEF Untroubled
<1>4. ASSUME NEW okRole \in BOOLEAN, NEW okAudit \in BOOLEAN, CheckOverrides(w, okRole, okAudit)
      PROVE  VerdictsInv' /\ (Untroubled' => Untroubled)
  <2>1. worker[w].pc = "overrides" /\ UNCHANGED <<review, notices, judged, hiders>>
    BY <1>4 DEF CheckOverrides, dbVars, history
  <2>2. Untroubled' => Untroubled
    <3>1. \E n \in Nat : Failing(n)
      BY <1>4 DEF CheckOverrides
    <3> QED
      BY <1>1, <3>1, TroubleStays
  <2>3. worker'[w].plan = worker[w].plan /\ worker'[w].item = worker[w].item
    BY <1>4 DEF CheckOverrides, WorkerState, CareInv, IndInv, TypeOK
  <2>4. PlanOK(w)'
    BY <2>1, <2>3 DEF PlanOK, CareInv, VerdictsInv, RemovesUnreviewed
  <2>5. \A d \in Content : ~OwesReview(worker[w], d) /\ ~OwesDm(worker[w], d)
    BY <2>1 DEF OwesReview, OwesDm, ReviewPcs, PlanPcs
  <2> QED
    BY <1>1, <1>2, <2>1, <2>2, <2>4, <2>5, WorkerCares
<1>5. ASSUME CrashWorker(w) PROVE VerdictsInv' /\ ~Untroubled'
  <2>1. ~Untroubled' /\ UNCHANGED <<review, notices, judged, hiders>>
    BY <1>1, <1>5, CrashIsTrouble DEF CrashWorker, dbVars, history
  <2>2. worker'[w].pc = "idle"
    BY <1>5 DEF CrashWorker, IdleWorker, CareInv, IndInv, TypeOK
  <2>3. PlanOK(w)'
    BY <2>2 DEF PlanOK
  <2> QED
    BY <1>1, <1>2, <2>1, <2>3, WorkerCares
<1>6. ASSUME Finish(w) PROVE VerdictsInv' /\ (Untroubled' => Untroubled)
  <2>1. worker[w].pc = "finish" /\ UNCHANGED <<review, judged, hiders, budget>>
    BY <1>6 DEF Finish, history
  <2>2. worker'[w].pc = "idle"
    BY <1>6 DEF Finish, IdleWorker, CareInv, IndInv, TypeOK
  <2>3. PlanOK(w)'
    BY <2>2 DEF PlanOK
  <2>4. /\ \A c \in Content : notices[c] \subseteq notices'[c]
        /\ \A c \in Content : OwesDm(worker[w], c) => WillTell(c)'
    BY <1>6 DEF Finish, OwesDm, WillTell, CareInv, IndInv, TypeOK
  <2>5. \A c \in Content : ~OwesReview(worker[w], c)
    BY <2>1 DEF OwesReview, ReviewPcs
  <2> QED
    BY <1>1, <1>2, <2>1, <2>3, <2>4, <2>5, WorkerCares DEF Untroubled
<1>7. VerdictsInv' /\ (Untroubled' => Untroubled)
  <2>1. CASE \E ok \in BOOLEAN : AuditLookup(w, ok) \/ AuditWrite(w, ok) \/ HideSource(w, ok)
                                 \/ ReviewLookup(w, ok) \/ ReviewWrite(w, ok)
    <3>1. \E ok \in BOOLEAN : Statement(ok)
      BY <2>1 DEF AuditLookup, AuditWrite, HideSource, ReviewLookup, ReviewWrite
    <3> QED
      BY <1>1, <2>1, <3>1, CarryingOutCares, StatementGoesWell
  <2>2. CASE BuildFails(w) \/ SkipShort(w) \/ NotConfigured(w) \/ JudgeFails(w)
             \/ \E v \in Verdicts : Judge(w, v)
    <3>1. UNCHANGED budget
      BY <2>2 DEF BuildFails, SkipShort, NotConfigured, JudgeFails, Judge
    <3> QED
      BY <2>2, <3>1, JudgeCares DEF Untroubled
  <2> QED
    BY <1>3, <1>4, <1>5, <1>6, <2>1, <2>2 DEF WorkerStep
<1>8. UNCHANGED <<flags, reporter>>
  BY DEF Fetch, WorkerStep, CheckOverrides, BuildFails, SkipShort, NotConfigured, JudgeFails, Judge,
         Plan, AuditLookup, AuditWrite, HideSource, ReviewLookup, ReviewWrite, Step, Finish,
         CrashWorker, dbVars
<1>9. ASSUME NEW c \in Content PROVE hiders[c] \subseteq hiders'[c]
  <2>1. CASE \E ok \in BOOLEAN : HideSource(w, ok)
    <3>1. worker[w].item \in Content
      BY <2>1 DEF HideSource, Step, CareInv, IndInv, BusyInv
    <3> QED
      BY <1>1, <2>1, <3>1, HidersGrow DEF HideSource
  <2>2. CASE UNCHANGED hiders
    BY <2>2
  <2> QED
    BY <2>1, <2>2
    DEF Fetch, WorkerStep, CheckOverrides, BuildFails, SkipShort, NotConfigured, JudgeFails, Judge,
        Plan, AuditLookup, AuditWrite, ReviewLookup, ReviewWrite, Finish, CrashWorker, history
<1>10. FlagsInv'
  BY <1>7, <1>8, <1>9, FlagsAside DEF CareInv
<1> QED
  BY <1>7, <1>10

LEMMA CareInit == Init => CareInv
<1> SUFFICES ASSUME Init PROVE CareInv
  OBVIOUS
<1>1. IndInv
  BY InitInv
<1>2. VerdictsInv
  BY DEF Init, VerdictsInv, PlanOK, AiHideOK, CrisisOK, IdleWorker
<1>3. FlagsInv
  BY FS_EmptySet DEF Init, FlagsInv, FlagThreshold
<1> QED
  BY <1>1, <1>2, <1>3 DEF CareInv

LEMMA CareNext == CareInv /\ [Next]_vars => CareInv'
<1> SUFFICES ASSUME CareInv, [Next]_vars PROVE CareInv'
  OBVIOUS
<1>1. IndInv'
  BY NextInv DEF CareInv
<1>2. CASE UNCHANGED vars
  <2>1. UNCHANGED <<worker, judged, review, notices, hiders, flags, reporter>> /\ (Untroubled' => Untroubled)
    BY <1>2 DEF vars, dbVars, actors, history, Untroubled
  <2> QED
    BY <1>1, <2>1, VerdictsAside, FlagsAside DEF CareInv
<1>3. CASE Next
  <2>1. VerdictsInv' /\ FlagsInv'
    BY <1>3, QueueCares, StaffCares, ReportersCare, WorkersCare DEF Next
  <2> QED
    BY <1>1, <2>1 DEF CareInv
<1> QED
  BY <1>2, <1>3

LEMMA CareHolds == Spec => []CareInv
BY CareInit, CareNext, PTL DEF Spec

(* A row of the review queue says visible only where a run of the job left *)
(* the item visible, whatever fails or dies: a worker on its way to the    *)
(* queue carries the plan of a verdict on that item or of a failed call.   *)
Explained(plan, verdicts) ==
  plan.action = "allow" /\ plan.needsReview =>
    plan.reviewReason = "system_error" \/ \E v \in verdicts : LeavesVisible(v)

PlanIsExplained(w) ==
  worker[w].pc # "idle" =>
    /\ Explained(worker[w].plan, judged[worker[w].item])
    /\ worker[w].pc \in {"reviewLookup", "reviewWrite"} => worker[w].plan.needsReview

RowIsExplained(c) ==
  review[c].row => review[c].current_state = "hidden" \/ LeftVisible(c)

StateInv == (\A w \in Workers : PlanIsExplained(w)) /\ (\A c \in Content : RowIsExplained(c))

(* Steps that neither plan nor write a row.                                *)
LEMMA StateAside ==
  ASSUME StateInv, UNCHANGED <<worker, judged, review>>
  PROVE  StateInv'
BY DEF StateInv, PlanIsExplained, RowIsExplained, Explained, LeftVisible, LeavesVisible

LEMMA StaffKeepsState ==
  ASSUME IndInv, StateInv, NEW s \in Staff, NEW ok \in BOOLEAN, ResolveQueue(s, ok)
  PROVE  StateInv'
<1>1. UNCHANGED <<worker, judged>> /\ staff[s].item \in Content /\ review[staff[s].item].row
  BY DEF ResolveQueue, StaffMoves, IndInv, BusyInv, history
<1>2. \A w \in Workers : PlanIsExplained(w)'
  BY <1>1 DEF StateInv, PlanIsExplained, Explained, LeavesVisible
<1>3. ASSUME NEW c \in Content
      PROVE  /\ review'[c].row = review[c].row
             /\ review[c].row => /\ review'[c].current_state = review[c].current_state
                                 /\ review'[c].reason = review[c].reason
  <2>1. review[staff[s].item] \in ReviewRow
    BY <1>1 DEF IndInv, TypeOK, NoRow
  <2>2. CASE ok /\ c = staff[s].item
    <3>1. review'[c] = [review[c] EXCEPT !.status = "resolved", !.resolution = staff[s].act]
      BY <2>2 DEF ResolveQueue, IndInv, TypeOK
    <3> QED
      BY <2>1, <2>2, <3>1 DEF ReviewRow
  <2>3. CASE ~(ok /\ c = staff[s].item)
    BY <2>3 DEF ResolveQueue, IndInv, TypeOK
  <2> QED
    BY <2>2, <2>3
<1>4. \A c \in Content : RowIsExplained(c)'
  BY <1>1, <1>3 DEF StateInv, RowIsExplained, LeftVisible, LeavesVisible
<1> QED
  BY <1>2, <1>4 DEF StateInv

(* A worker that writes no row and whose plan stays explained.             *)
LEMMA WorkerKeepsState ==
  ASSUME IndInv, StateInv, NEW w \in Workers, UNCHANGED review,
         \A x \in Workers : x # w => worker'[x] = worker[x],
         \A c \in Content : judged[c] \subseteq judged'[c],
         PlanIsExplained(w)'
  PROVE  StateInv'
<1>1. ASSUME NEW x \in Workers, x # w PROVE PlanIsExplained(x)'
  <2>1. worker[x].pc # "idle" => worker[x].item \in Content
    BY DEF IndInv, BusyInv
  <2> QED
    BY <1>1, <2>1 DEF StateInv, PlanIsExplained, Explained, LeavesVisible
<1>2. \A c \in Content : RowIsExplained(c)'
  BY DEF StateInv, RowIsExplained, LeftVisible, LeavesVisible
<1> QED
  BY <1>1, <1>2 DEF StateInv

LEMMA PlanKeepsState ==
  ASSUME IndInv, StateInv, NEW w \in Workers, NEW plan, Plan(w, plan),
         \A c \in Content : judged[c] \subseteq judged'[c],
         Explained(plan, judged'[worker[w].item])
  PROVE  StateInv'
<1>1. worker[w] \in WorkerState
  BY DEF IndInv, TypeOK
<1>2. /\ worker'[w] = [worker[w] EXCEPT !.pc = "auditLookup", !.plan = plan]
      /\ \A x \in Workers : x # w => worker'[x] = worker[x]
      /\ UNCHANGED review
  BY DEF Plan, IndInv, TypeOK, dbVars
<1>3. /\ worker'[w].pc = "auditLookup" /\ worker'[w].plan = plan
      /\ worker'[w].item = worker[w].item
  BY <1>1, <1>2 DEF WorkerState
<1>4. PlanIsExplained(w)'
  BY <1>3 DEF PlanIsExplained, Explained, LeavesVisible
<1> QED
  BY <1>2, <1>4, WorkerKeepsState

LEMMA JudgeKeepsState ==
  ASSUME IndInv, StateInv, NEW w \in Workers,
         \/ BuildFails(w) \/ SkipShort(w) \/ NotConfigured(w) \/ JudgeFails(w)
         \/ \E v \in Verdicts : Judge(w, v)
  PROVE  StateInv'
<1>1. CASE BuildFails(w)
  <2> DEFINE plan == Result("allow", "pending_review", FALSE, "low", "")
  <2>1. Explained(plan, judged'[worker[w].item])
    BY DEF Explained, Result
  <2>2. Plan(w, plan) /\ \A c \in Content : judged[c] \subseteq judged'[c]
    BY <1>1 DEF BuildFails
  <2> HIDE DEF plan
  <2> QED
    BY <2>1, <2>2, PlanKeepsState
<1>2. CASE SkipShort(w) \/ NotConfigured(w)
  <2>1. Explained(NoPlan, judged'[worker[w].item])
    BY DEF Explained, NoPlan, Result
  <2>2. Plan(w, NoPlan) /\ \A c \in Content : judged[c] \subseteq judged'[c]
    BY <1>2 DEF SkipShort, NotConfigured
  <2> QED
    BY <2>1, <2>2, PlanKeepsState
<1>3. CASE JudgeFails(w)
  <2> DEFINE plan == Result("allow", "pending_review", TRUE, "normal", "system_error")
  <2>1. Explained(plan, judged'[worker[w].item])
    BY DEF Explained, Result
  <2>2. Plan(w, plan) /\ \A c \in Content : judged[c] \subseteq judged'[c]
    BY <1>3 DEF JudgeFails
  <2> HIDE DEF plan
  <2> QED
    BY <2>1, <2>2, PlanKeepsState
<1>4. ASSUME NEW v \in Verdicts, Judge(w, v) PROVE StateInv'
  <2>1. /\ Plan(w, Decide(Mode, v)) /\ worker[w].item \in Content
        /\ judged' = [judged EXCEPT ![worker[w].item] = @ \cup {v}]
    BY <1>4 DEF Judge, Plan, IndInv, BusyInv
  <2>2. /\ v \in judged'[worker[w].item]
        /\ \A c \in Content : judged[c] \subseteq judged'[c]
    BY <2>1 DEF IndInv, TypeOK
  <2>3. Explained(Decide(Mode, v), judged'[worker[w].item])
    BY <2>2 DEF Explained, LeavesVisible
  <2> QED
    BY <2>1, <2>2, <2>3, PlanKeepsState
<1> QED
  BY <1>1, <1>2, <1>3, <1>4

(* The row says what the plan has done.                                    *)
LEMMA ReviewKeepsState ==
  ASSUME IndInv, StateInv, NEW w \in Workers, NEW ok \in BOOLEAN, ReviewWrite(w, ok)
  PROVE  StateInv'
<1>1. /\ worker[w] \in WorkerState /\ worker[w].item \in Content
      /\ worker[w].pc = "reviewWrite"
  BY DEF ReviewWrite, Step, IndInv, TypeOK, BusyInv
<1>2. /\ worker' = [worker EXCEPT ![w] = [worker[w] EXCEPT !.pc = "finish"]]
      /\ UNCHANGED judged
  BY DEF ReviewWrite, Step, history
<1>3. /\ worker'[w].item = worker[w].item /\ worker'[w].plan = worker[w].plan
      /\ worker'[w].pc = "finish"
      /\ \A x \in Workers : x # w => worker'[x] = worker[x]
  BY <1>1, <1>2 DEF WorkerState, IndInv, TypeOK
<1>4. \A x \in Workers : PlanIsExplained(x)'
  BY <1>1, <1>2, <1>3 DEF StateInv, PlanIsExplained, Explained, LeavesVisible
<1>5. ASSUME NEW c \in Content PROVE RowIsExplained(c)'
  <2>1. CASE review'[c] = review[c]
    BY <1>2, <2>1 DEF StateInv, RowIsExplained, LeftVisible, LeavesVisible
  <2>2. CASE c = worker[w].item /\ review'[c] = PendingRow(worker[w].plan)
    <3>1. worker[w].plan.needsReview /\ Explained(worker[w].plan, judged[c])
      BY <1>1, <2>2 DEF StateInv, PlanIsExplained
    <3>2. CASE worker[w].plan.action = "allow"
      <4>1. review'[c].reason = worker[w].plan.reviewReason
        BY <2>2 DEF PendingRow
      <4> QED
        BY <1>2, <3>1, <3>2, <4>1 DEF RowIsExplained, Explained, LeftVisible, LeavesVisible
    <3>3. CASE worker[w].plan.action # "allow"
      <4>1. review'[c].current_state = "hidden"
        BY <2>2, <3>3 DEF PendingRow
      <4> QED
        BY <4>1 DEF RowIsExplained
    <3> QED
      BY <3>2, <3>3
  <2> QED
    BY <1>1, <2>1, <2>2 DEF ReviewWrite, IndInv, TypeOK
<1> QED
  BY <1>4, <1>5 DEF StateInv

LEMMA WorkersKeepState ==
  ASSUME IndInv, StateInv, NEW w \in Workers,
         (\E c \in Content : Fetch(w, c)) \/ WorkerStep(w) \/ CrashWorker(w)
  PROVE  StateInv'
<1>1. \A x \in Workers : x # w => worker'[x] = worker[x]
  BY DEF Fetch, WorkerStep, CheckOverrides, BuildFails, SkipShort, NotConfigured, JudgeFails, Judge,
         Plan, AuditLookup, AuditWrite, HideSource, ReviewLookup, ReviewWrite, Step, Finish,
         CrashWorker, IndInv, TypeOK
<1>2. worker[w] \in WorkerState
  BY DEF IndInv, TypeOK
<1>3. ASSUME UNCHANGED <<review, judged>>,
             \/ worker'[w].pc = "idle"
             \/ worker'[w].plan = NoPlan /\ worker'[w].pc = "overrides"
             \/ /\ worker[w].pc # "idle" /\ worker'[w].item = worker[w].item
                /\ worker'[w].plan = worker[w].plan
                /\ worker'[w].pc \in {"reviewLookup", "reviewWrite"} => worker[w].plan.needsReview
      PROVE  StateInv'
  <2>1. \A verdicts : Explained(NoPlan, verdicts)
    BY DEF Explained, NoPlan, Result
  <2>2. PlanIsExplained(w)'
    <3>1. CASE worker'[w].pc = "idle"
      BY <3>1 DEF PlanIsExplained
    <3>2. CASE worker'[w].plan = NoPlan /\ worker'[w].pc = "overrides"
      <4>1. Explained(worker'[w].plan, judged'[worker'[w].item])
        BY <2>1, <3>2
      <4> QED
        BY <3>2, <4>1 DEF PlanIsExplained, Explained, LeavesVisible
    <3>3. CASE /\ worker[w].pc # "idle" /\ worker'[w].item = worker[w].item
               /\ worker'[w].plan = worker[w].plan
               /\ worker'[w].pc \in {"reviewLookup", "reviewWrite"} => worker[w].plan.needsReview
      <4>1. Explained(worker'[w].plan, judged'[worker'[w].item])
        BY <1>3, <3>3 DEF StateInv, PlanIsExplained
      <4> QED
        BY <3>3, <4>1 DEF PlanIsExplained, Explained, LeavesVisible
    <3> QED
      BY <1>3, <3>1, <3>2, <3>3
  <2>3. \A c \in Content : judged[c] \subseteq judged'[c]
    BY <1>3
  <2> QED
    BY <1>1, <1>3, <2>2, <2>3, WorkerKeepsState
<1>4. CASE \E c \in Content : Fetch(w, c)
  <2>1. UNCHANGED <<review, judged>>
    BY <1>4 DEF Fetch, dbVars, history
  <2>2. worker'[w].plan = NoPlan /\ worker'[w].pc = "overrides"
    <3>1. PICK c \in Content : worker' = [worker EXCEPT ![w] = [IdleWorker EXCEPT !.pc = "overrides",
                                                                                !.item = c]]
      BY <1>4 DEF Fetch
    <3>2. worker'[w] = [IdleWorker EXCEPT !.pc = "overrides", !.item = c]
      BY <3>1 DEF IndInv, TypeOK
    <3> QED
      BY <3>2 DEF IdleWorker
  <2> QED
    BY <1>3, <2>1, <2>2
<1>5. CASE CrashWorker(w) \/ Finish(w)
  <2>1. UNCHANGED <<review, judged>>
    BY <1>5 DEF CrashWorker, Finish, dbVars, history
  <2>2. worker'[w].pc = "idle"
    BY <1>5 DEF CrashWorker, Finish, IdleWorker, IndInv, TypeOK
  <2> QED
    BY <1>3, <2>1, <2>2
<1>6. CASE \E okRole, okAudit \in BOOLEAN : CheckOverrides(w, okRole, okAudit)
  <2>1. UNCHANGED <<review, judged>>
    BY <1>6 DEF CheckOverrides, dbVars, history
  <2>2. /\ worker[w].pc # "idle" /\ worker'[w].item = worker[w].item
        /\ worker'[w].plan = worker[w].plan /\ worker'[w].pc \in {"auditLookup", "judge"}
    BY <1>2, <1>6 DEF CheckOverrides, WorkerState, IndInv, TypeOK
  <2> QED
    BY <1>3, <2>1, <2>2
<1>7. ASSUME NEW ok \in BOOLEAN,
             \/ AuditLookup(w, ok) \/ AuditWrite(w, ok) \/ HideSource(w, ok)
             \/ ReviewLookup(w, ok)
      PROVE  StateInv'
  <2>1. UNCHANGED <<review, judged>>
    BY <1>7 DEF AuditLookup, AuditWrite, HideSource, ReviewLookup, dbVars, history
  <2>2. /\ worker[w].pc # "idle" /\ worker'[w].item = worker[w].item
        /\ worker'[w].plan = worker[w].plan
        /\ worker'[w].pc \in {"reviewLookup", "reviewWrite"} => worker[w].plan.needsReview
    <3>1. CASE AuditLookup(w, ok)
      <4>1. worker'[w] = [worker[w] EXCEPT !.pc = "auditWrite",
                                           !.found = ok /\ audit[worker[w].item].row]
        BY <3>1 DEF AuditLookup, IndInv, TypeOK
      <4> QED
        BY <1>2, <3>1, <4>1 DEF AuditLookup, WorkerState
    <3>2. CASE AuditWrite(w, ok)
      <4>1. /\ worker'[w] = [worker[w] EXCEPT !.pc = AfterAudit(worker[w].plan)]
            /\ worker[w].pc = "auditWrite"
        BY <3>2 DEF AuditWrite, Step, IndInv, TypeOK
      <4>2. AfterAudit(worker[w].plan) \in {"reviewLookup", "reviewWrite"} => worker[w].plan.needsReview
        BY DEF AfterAudit, AfterHide
      <4> QED
        BY <1>2, <4>1, <4>2 DEF WorkerState
    <3>3. CASE HideSource(w, ok)
      <4>1. /\ worker'[w] = [worker[w] EXCEPT !.pc = AfterHide(worker[w].plan)]
            /\ worker[w].pc = "hide"
        BY <3>3 DEF HideSource, Step, IndInv, TypeOK
      <4>2. AfterHide(worker[w].plan) \in {"reviewLookup", "reviewWrite"} => worker[w].plan.needsReview
        BY DEF AfterHide
      <4> QED
        BY <1>2, <4>1, <4>2 DEF WorkerState
    <3>4. CASE ReviewLookup(w, ok)
      <4>1. /\ worker'[w] = [worker[w] EXCEPT !.pc = "reviewWrite",
                                              !.found = ok /\ review[worker[w].item].row]
            /\ worker[w].pc = "reviewLookup"
        BY <3>4 DEF ReviewLookup, IndInv, TypeOK
      <4>2. worker[w].plan.needsReview
        BY <4>1 DEF StateInv, PlanIsExplained
      <4> QED
        BY <1>2, <4>1, <4>2 DEF WorkerState
    <3> QED
      BY <1>7, <3>1, <3>2, <3>3, <3>4
  <2> QED
    BY <1>3, <2>1, <2>2
<1> QED
  BY <1>4, <1>5, <1>6, <1>7, JudgeKeepsState, ReviewKeepsState DEF WorkerStep

LEMMA StateNext == IndInv /\ StateInv /\ [Next]_vars => StateInv'
<1> SUFFICES ASSUME IndInv, StateInv, [Next]_vars PROVE StateInv'
  OBVIOUS
<1>1. CASE \E w \in Workers : \/ \E c \in Content : Fetch(w, c)
                              \/ WorkerStep(w) \/ CrashWorker(w)
  BY <1>1, WorkersKeepState
<1>2. CASE \E s \in Staff, ok \in BOOLEAN : ResolveQueue(s, ok)
  BY <1>2, StaffKeepsState
<1>3. ASSUME \/ UNCHANGED vars
             \/ \E c \in Content : \/ \E enqueued \in BOOLEAN : Post(c, enqueued)
                                  \/ Stall(c) \/ Purge(c)
                                  \/ \E ok \in BOOLEAN : SweepAdd(c, ok)
             \/ SweepQuery \/ CrashSweep
      PROVE  UNCHANGED <<worker, judged, review>>
  BY <1>3 DEF Post, Stall, Purge, SweepAdd, SweepQuery, CrashSweep, vars, dbVars, actors, history
<1>4. ASSUME NEW s \in Staff,
             \/ \E c \in Content, act \in ReviewActs : ResolveRead(s, c, act)
             \/ \E c \in Content, act \in AdminActs, ok \in BOOLEAN : AdminLookup(s, c, act, ok)
             \/ \E ok \in BOOLEAN : \/ ResolveSource(s, ok) \/ ResolveAudit(s, ok)
                                    \/ ResolveLog(s, ok) \/ AdminUpsert(s, ok)
                                    \/ AdminSource(s, ok)
             \/ CrashStaff(s)
      PROVE  UNCHANGED <<worker, judged, review>>
  BY <1>4 DEF ResolveRead, AdminLookup, ResolveSource, ResolveAudit, ResolveLog, AdminUpsert,
     AdminSource, CrashStaff, dbVars, history
<1>5. ASSUME NEW r \in Reporters,
             (\E c \in Content : FlagInsert(r, c)) \/ ReporterStep(r) \/ CrashReporter(r)
      PROVE  UNCHANGED <<worker, judged, review>>
  BY <1>5 DEF FlagInsert, ReporterStep, FlagCount, FlagHide, CrashReporter, dbVars, history
<1> QED
  BY <1>1, <1>2, <1>3, <1>4, <1>5, StateAside DEF Next, StaffStep

LEMMA StateHolds == Spec => [](IndInv /\ StateInv)
<1>1. Init => IndInv /\ StateInv
  <2>1. Init => StateInv
    BY DEF Init, StateInv, PlanIsExplained, RowIsExplained, IdleWorker, NoRow
  <2> QED
    BY <2>1, InitInv
<1>2. IndInv /\ StateInv /\ [Next]_vars => (IndInv /\ StateInv)'
  BY NextInv, StateNext
<1> QED
  BY <1>1, <1>2, PTL DEF Spec

(* What the model hides can be reversed by a moderator, unless it was to   *)
(* be removed at once or another run of the job left it visible: in every  *)
(* run of the system up to the first statement that fails or process that  *)
(* dies, jobs delivered twice included.                                    *)
THEOREM HidesAreReviewable == Spec => [](Untroubled => AiHideIsReviewable)
<1>1. CareInv /\ StateInv => (Untroubled => AiHideIsReviewable)
  <2> SUFFICES ASSUME CareInv, StateInv, Untroubled, NEW c \in Content, Quiet(c), "ai" \in hiders[c],
                      ~\E v \in judged[c] : RemovesUnreviewed(v)
               PROVE  review[c].row /\ (review[c].current_state = "hidden" \/ LeftVisible(c))
    BY DEF AiHideIsReviewable
  <2>1. review[c].row
    BY DEF CareInv, VerdictsInv, AiHideOK, WillReview, OwesReview, Quiet
  <2> QED
    BY <2>1 DEF StateInv, RowIsExplained
<1> QED
  BY <1>1, CareHolds, StateHolds, PTL

(* A cry for help is reviewed and answered, whatever else was judged of    *)
(* the item: up to the first failure or crash.                             *)
THEOREM CrisesAreCaredFor == Spec => [](Untroubled => CrisisIsCaredFor)
<1>1. CareInv => (Untroubled => CrisisIsCaredFor)
  <2> SUFFICES ASSUME CareInv, Untroubled, NEW c \in Content, Quiet(c),
                      \E v \in judged[c] : CrisisSignal(v)
               PROVE  review[c].row /\ "safety_resources" \in notices[c]
    BY DEF CrisisIsCaredFor
  <2> QED
    BY DEF CareInv, VerdictsInv, CrisisOK, WillReview, WillTell, OwesReview, OwesDm, Quiet
<1> QED
  BY <1>1, CareHolds, PTL

(* Flags that reach the threshold hide the item, however the insertions    *)
(* and the counts of their reporters interleave, for any number of them.   *)
THEOREM FlagsHide == Spec => []FlagThresholdHides
<1>1. CareInv => FlagThresholdHides
  BY DEF CareInv, FlagsInv, FlagThresholdHides, WillCount, Quiet, Untroubled
<1> QED
  BY <1>1, CareHolds, PTL


----------------------------------------------------------------------------
(* Refinement.  What can be seen of a step in ContentVisibility: which     *)
(* items are hidden, on what grounds, and who is restoring what.           *)

GroundsNow == [c \in Content |-> Grounds(c)]

Restores(k, c) ==
  /\ k.item = c
  /\ \/ k.act = "reverse" /\ k.pc \in {"resolveQueue", "resolveSource"}
     \/ k.act = "restoreContent" /\ k.pc \in {"upsert", "source"}

(* Confirming a review does not write is_hidden.                           *)
SourceInv == \A s \in Staff : staff[s].pc = "resolveSource" => staff[s].act # "confirm"

VisibleStep == [Visibility!Next]_(Visibility!vars)

LEMMA GroundsOf ==
  ASSUME NEW c \in Content
  PROVE  /\ Grounds(c) \subseteq {"ai", "staff", "flags"}
         /\ "ai" \in Grounds(c) <=> \E v \in judged[c] : MayHide(v)
         /\ "staff" \in Grounds(c) <=> c \in ordered
         /\ "flags" \in Grounds(c) <=> Cardinality(flags[c]) >= FlagThreshold
         /\ Grounds(c)' \subseteq {"ai", "staff", "flags"}
         /\ "ai" \in Grounds(c)' <=> \E v \in judged'[c] : MayHide(v)
         /\ "staff" \in Grounds(c)' <=> c \in ordered'
         /\ "flags" \in Grounds(c)' <=> Cardinality(flags'[c]) >= FlagThreshold
BY DEF Grounds, MayHide

LEMMA SameGrounds ==
  ASSUME UNCHANGED <<judged, ordered, flags>>
  PROVE  GroundsNow' = GroundsNow
BY DEF GroundsNow, Grounds, MayHide

LEMMA SameGroundsOf ==
  ASSUME NEW c \in Content, judged'[c] = judged[c], flags'[c] = flags[c],
         c \in ordered' <=> c \in ordered
  PROVE  Grounds(c)' = Grounds(c)
BY DEF Grounds, MayHide

LEMMA RestoringIs ==
  /\ Restoring = {c \in Content : \E s \in Staff : Restores(staff[s], c)}
  /\ Restoring' = {c \in Content : \E s \in Staff : Restores(staff'[s], c)}
BY DEF Restoring, Restores

LEMMA SameRestoring ==
  ASSUME NEW s \in Staff, \A x \in Staff : x # s => staff'[x] = staff[x],
         \A c \in Content : Restores(staff'[s], c) <=> Restores(staff[s], c)
  PROVE  Restoring' = Restoring
BY RestoringIs

LEMMA RestoringBegins ==
  ASSUME NEW s \in Staff, \A x \in Staff : x # s => staff'[x] = staff[x],
         NEW c \in Content, \A d \in Content : ~Restores(staff[s], d),
         \A d \in Content : Restores(staff'[s], d) <=> d = c
  PROVE  Restoring' = Restoring \cup {c}
BY RestoringIs

LEMMA RestoringEnds ==
  ASSUME NEW s \in Staff, \A x \in Staff : x # s => staff'[x] = staff[x],
         NEW c \in Content, \A d \in Content : Restores(staff[s], d) <=> d = c,
         \A d \in Content : ~Restores(staff'[s], d)
  PROVE  c \in Restoring /\ Restoring' \in {Restoring, Restoring \ {c}}
<1>1. c \in Restoring
  BY RestoringIs
<1>2. \A d \in Content : d # c => (d \in Restoring' <=> d \in Restoring)
  BY RestoringIs
<1>3. Restoring \subseteq Content /\ Restoring' \subseteq Content
  BY RestoringIs
<1>4. CASE c \in Restoring'
  <2>1. Restoring' = Restoring
    BY <1>1, <1>2, <1>3, <1>4
  <2> QED
    BY <1>1, <2>1
<1>5. CASE c \notin Restoring'
  <2>1. Restoring' = Restoring \ {c}
    BY <1>1, <1>2, <1>3, <1>5
  <2> QED
    BY <1>1, <2>1
<1> QED
  BY <1>4, <1>5

----------------------------------------------------------------------------
(* The steps of ContentVisibility                                          *)

LEMMA Unseen ==
  ASSUME UNCHANGED hidden, GroundsNow' = GroundsNow, Restoring' = Restoring
  PROVE  VisibleStep
BY DEF VisibleStep, Visibility!vars, GroundsNow

LEMMA Accuses ==
  ASSUME UNCHANGED hidden, Restoring' = Restoring,
         NEW c \in Content, NEW source \in {"ai", "staff", "flags"},
         \A d \in Content : d # c => Grounds(d)' = Grounds(d),
         \A other \in {"ai", "staff", "flags"} \ {source} :
           other \in Grounds(c)' <=> other \in Grounds(c),
         source \in Grounds(c) => source \in Grounds(c)'
  PROVE  VisibleStep
<1>1. Grounds(c) \subseteq {"ai", "staff", "flags"} /\ Grounds(c)' \subseteq {"ai", "staff", "flags"}
  BY GroundsOf
<1>2. Grounds(c)' = Grounds(c) \/ Grounds(c)' = Grounds(c) \cup {source}
  BY <1>1
<1>3. CASE Grounds(c)' = Grounds(c)
  <2>1. GroundsNow' = GroundsNow
    BY <1>3 DEF GroundsNow
  <2> QED
    BY <2>1, Unseen
<1>4. CASE Grounds(c)' = Grounds(c) \cup {source}
  <2>1. GroundsNow' = [GroundsNow EXCEPT ![c] = @ \cup {source}]
    BY <1>4 DEF GroundsNow
  <2>2. Visibility!Accuse(c, source)
    BY <2>1 DEF Visibility!Accuse, GroundsNow
  <2> QED
    BY <2>2 DEF VisibleStep, Visibility!Next
<1> QED
  BY <1>2, <1>3, <1>4

LEMMA Hides ==
  ASSUME NEW c \in Content, Grounds(c) # {}, hidden' = [hidden EXCEPT ![c] = TRUE],
         GroundsNow' = GroundsNow, Restoring' = Restoring
  PROVE  VisibleStep
<1>1. Visibility!Hide(c)
  BY DEF Visibility!Hide, GroundsNow
<1> QED
  BY <1>1 DEF VisibleStep, Visibility!Next

LEMMA Begins ==
  ASSUME NEW c \in Content, UNCHANGED hidden, GroundsNow' = GroundsNow,
         Restoring' = Restoring \cup {c}
  PROVE  VisibleStep
<1>1. Visibility!BeginRestore(c)
  BY DEF Visibility!BeginRestore, GroundsNow
<1> QED
  BY <1>1 DEF VisibleStep, Visibility!Next

LEMMA RestoresSeen ==
  ASSUME NEW c \in Content, hidden' = [hidden EXCEPT ![c] = FALSE],
         GroundsNow' = GroundsNow, c \in Restoring,
         Restoring' \in {Restoring, Restoring \ {c}}
  PROVE  VisibleStep
<1>1. Visibility!Restore(c)
  BY DEF Visibility!Restore, GroundsNow
<1> QED
  BY <1>1 DEF VisibleStep, Visibility!Next

LEMMA GivesUp ==
  ASSUME NEW c \in Content, UNCHANGED hidden, GroundsNow' = GroundsNow,
         c \in Restoring, Restoring' \in {Restoring, Restoring \ {c}}
  PROVE  VisibleStep
<1>1. CASE Restoring' = Restoring
  BY <1>1, Unseen
<1>2. CASE Restoring' = Restoring \ {c}
  <2>1. Visibility!GiveUp(c)
    BY <1>2 DEF Visibility!GiveUp, GroundsNow
  <2> QED
    BY <2>1 DEF VisibleStep, Visibility!Next
<1> QED
  BY <1>1, <1>2

----------------------------------------------------------------------------
(* The steps of the system                                                 *)

LEMMA StaffAside ==
  ASSUME UNCHANGED staff
  PROVE  Restoring' = Restoring
BY RestoringIs

LEMMA AsideUnseen ==
  ASSUME UNCHANGED <<hidden, judged, ordered, flags, staff>>
  PROVE  VisibleStep
BY SameGrounds, StaffAside, Unseen

LEMMA WorkersRefine ==
  ASSUME IndInv, NEW w \in Workers,
         (\E c \in Content : Fetch(w, c)) \/ WorkerStep(w) \/ CrashWorker(w)
  PROVE  VisibleStep
<1>1. ASSUME NEW v \in Verdicts, Judge(w, v) PROVE VisibleStep
  <2>1. PICK c \in Content : c = worker[w].item
    BY <1>1 DEF Judge, Plan, IndInv, BusyInv
  <2>2. UNCHANGED <<hidden, ordered, flags, staff>>
    BY <1>1 DEF Judge, Plan, dbVars
  <2>3. /\ \A d \in Content : d # c => judged'[d] = judged[d]
        /\ judged[c] \subseteq judged'[c]
    BY <1>1, <2>1 DEF Judge, IndInv, TypeOK
  <2>4. \A d \in Content : d # c => Grounds(d)' = Grounds(d)
    BY <2>2, <2>3, SameGroundsOf
  <2>5. /\ \A other \in {"ai", "staff", "flags"} \ {"ai"} :
             other \in Grounds(c)' <=> other \in Grounds(c)
        /\ "ai" \in Grounds(c) => "ai" \in Grounds(c)'
    BY <2>2, <2>3, GroundsOf
  <2> QED
    BY <2>2, <2>4, <2>5, StaffAside, Accuses
<1>2. ASSUME NEW ok \in BOOLEAN, HideSource(w, ok) PROVE VisibleStep
  <2>1. /\ worker[w].item \in Content
        /\ \E v \in judged[worker[w].item] : MayHide(v)
    BY <1>2 DEF HideSource, Step, IndInv, BusyInv, GroundsInv
  <2>2. UNCHANGED <<judged, ordered, flags, staff>>
    BY <1>2 DEF HideSource
  <2>3. CASE ok
    <3>1. hidden' = [hidden EXCEPT ![worker[w].item] = TRUE]
      BY <1>2, <2>3 DEF HideSource, SetHidden
    <3>2. Grounds(worker[w].item) # {}
      BY <2>1, GroundsOf
    <3> QED
      BY <2>1, <2>2, <3>1, <3>2, SameGrounds, StaffAside, Hides
  <2>4. CASE ~ok
    BY <1>2, <2>2, <2>4, AsideUnseen DEF HideSource
  <2> QED
    BY <2>3, <2>4
<1>3. ASSUME ~\E v \in Verdicts : Judge(w, v), ~\E ok \in BOOLEAN : HideSource(w, ok)
      PROVE  UNCHANGED <<hidden, judged, ordered, flags, staff>>
  BY <1>3 DEF Fetch, CrashWorker, WorkerStep, CheckOverrides, BuildFails, SkipShort, NotConfigured,
              JudgeFails, Plan, AuditLookup, AuditWrite, ReviewLookup, ReviewWrite, Finish, dbVars,
              history
<1> QED
  BY <1>1, <1>2, <1>3, AsideUnseen

LEMMA QueueRefines ==
  ASSUME \/ \E c \in Content : \/ \E enqueued \in BOOLEAN : Post(c, enqueued)
                               \/ Stall(c) \/ Purge(c)
                               \/ \E ok \in BOOLEAN : SweepAdd(c, ok)
         \/ SweepQuery \/ CrashSweep
  PROVE  VisibleStep
<1>1. UNCHANGED <<hidden, judged, ordered, flags, staff>>
  BY DEF Post, Stall, Purge, SweepAdd, SweepQuery, CrashSweep, dbVars, actors, history
<1> QED
  BY <1>1, AsideUnseen

LEMMA ReportersRefine ==
  ASSUME IndInv, NEW r \in Reporters,
         (\E c \in Content : FlagInsert(r, c)) \/ ReporterStep(r) \/ CrashReporter(r)
  PROVE  VisibleStep
<1>1. ASSUME NEW c \in Content, FlagInsert(r, c) PROVE VisibleStep
  <2>1. UNCHANGED <<hidden, judged, ordered, staff>>
    BY <1>1 DEF FlagInsert, history
  <2>2. \A d \in Content : d # c => flags'[d] = flags[d]
    BY <1>1 DEF FlagInsert, IndInv, TypeOK
  <2>3. Cardinality(flags'[c]) >= Cardinality(flags[c]) /\ Cardinality(flags[c]) \in Nat
        /\ Cardinality(flags'[c]) \in Nat
    <3>1. flags[c] \subseteq Reporters /\ flags'[c] = flags[c] \cup {r}
      BY <1>1 DEF FlagInsert, IndInv, TypeOK
    <3>2. IsFiniteSet(flags[c])
      BY <3>1, FS_Subset, ConstantsAssumption
    <3>3. Cardinality(flags[c]) \in Nat /\ Cardinality(flags[c] \cup {r}) = Cardinality(flags[c]) + 1
      BY <1>1, <3>2, FS_CardinalityType, FS_AddElement DEF FlagInsert
    <3> QED
      BY <3>1, <3>3
  <2>4. \A d \in Content : d # c => Grounds(d)' = Grounds(d)
    BY <2>1, <2>2, GroundsOf
  <2>5. \A other \in {"ai", "staff", "flags"} \ {"flags"} : other \in Grounds(c)' <=> other \in Grounds(c)
    BY <2>1, GroundsOf
  <2>6. "flags" \in Grounds(c) => "flags" \in Grounds(c)'
    <3>1. Cardinality(flags[c]) >= FlagThreshold => Cardinality(flags'[c]) >= FlagThreshold
      BY <2>3 DEF FlagThreshold
    <3> QED
      BY <3>1, GroundsOf
  <2> QED
    BY <2>1, <2>4, <2>5, <2>6, StaffAside, Accuses
<1>2. ASSUME NEW ok \in BOOLEAN, FlagHide(r, ok) PROVE VisibleStep
  <2>1. /\ reporter[r].item \in Content
        /\ Cardinality(flags[reporter[r].item]) >= FlagThreshold
    BY <1>2 DEF FlagHide, IndInv, BusyInv, GroundsInv
  <2>2. UNCHANGED <<judged, ordered, flags, staff>>
    BY <1>2 DEF FlagHide
  <2>3. CASE ok
    <3>1. hidden' = [hidden EXCEPT ![reporter[r].item] = TRUE]
      BY <1>2, <2>3 DEF FlagHide, SetHidden
    <3>2. Grounds(reporter[r].item) # {}
      BY <2>1, GroundsOf
    <3> QED
      BY <2>1, <2>2, <3>1, <3>2, SameGrounds, StaffAside, Hides
  <2>4. CASE ~ok
    BY <1>2, <2>2, <2>4, AsideUnseen DEF FlagHide
  <2> QED
    BY <2>3, <2>4
<1>3. ASSUME NEW ok \in BOOLEAN, FlagCount(r, ok) PROVE VisibleStep
  BY <1>3, AsideUnseen DEF FlagCount, dbVars, history
<1>4. CASE CrashReporter(r)
  BY <1>4, AsideUnseen DEF CrashReporter, dbVars, history
<1> QED
  BY <1>1, <1>2, <1>3, <1>4 DEF ReporterStep

(* A step of a moderator that writes neither is_hidden nor an order, in    *)
(* the middle of a call or at its end.                                     *)
LEMMA StaffUnseen ==
  ASSUME NEW s \in Staff, \A x \in Staff : x # s => staff'[x] = staff[x],
         UNCHANGED <<hidden, judged, ordered, flags>>,
         \/ \A c \in Content : Restores(staff'[s], c) <=> Restores(staff[s], c)
         \/ /\ staff[s].item \in Content
            /\ \A c \in Content : ~Restores(staff'[s], c)
  PROVE  VisibleStep
<1>1. CASE \A c \in Content : Restores(staff'[s], c) <=> Restores(staff[s], c)
  BY <1>1, SameGrounds, SameRestoring, Unseen
<1>2. CASE /\ staff[s].item \in Content /\ \A c \in Content : ~Restores(staff'[s], c)
           /\ ~ \A c \in Content : Restores(staff'[s], c) <=> Restores(staff[s], c)
  <2>1. PICK c \in Content : c = staff[s].item
    BY <1>2
  <2>2. \A d \in Content : Restores(staff[s], d) <=> d = c
    BY <1>2, <2>1 DEF Restores
  <2>3. c \in Restoring /\ Restoring' \in {Restoring, Restoring \ {c}}
    BY <1>2, <2>2, RestoringEnds
  <2> QED
    BY <2>3, SameGrounds, GivesUp
<1> QED
  BY <1>1, <1>2

LEMMA StaffBeginRefines ==
  ASSUME IndInv, NEW s \in Staff, NEW c \in Content,
         \/ \E act \in ReviewActs : ResolveRead(s, c, act)
         \/ \E act \in AdminActs, ok \in BOOLEAN : AdminLookup(s, c, act, ok)
  PROVE  VisibleStep
<1>1. PICK act \in ReviewActs \cup AdminActs :
        /\ staff[s].pc = "idle" /\ UNCHANGED <<hidden, judged, flags>>
        /\ staff'[s].item = c /\ staff'[s].act = act
        /\ staff'[s].pc = IF act \in ReviewActs THEN "resolveQueue" ELSE "upsert"
        /\ \A x \in Staff : x # s => staff'[x] = staff[x]
        /\ ordered' = IF act = "hide" THEN ordered \cup {c} ELSE ordered
  <2>1. ASSUME NEW act \in ReviewActs, ResolveRead(s, c, act)
        PROVE  /\ staff[s].pc = "idle" /\ UNCHANGED <<hidden, judged, flags>>
               /\ staff'[s].item = c /\ staff'[s].act = act /\ staff'[s].pc = "resolveQueue"
               /\ \A x \in Staff : x # s => staff'[x] = staff[x]
               /\ ordered' = IF act = "hide" THEN ordered \cup {c} ELSE ordered
    BY <2>1 DEF ResolveRead, IdleStaff, IndInv, TypeOK, dbVars
  <2>2. ASSUME NEW act \in AdminActs, NEW ok \in BOOLEAN, AdminLookup(s, c, act, ok)
        PROVE  /\ staff[s].pc = "idle" /\ UNCHANGED <<hidden, judged, flags>>
               /\ staff'[s].item = c /\ staff'[s].act = act /\ staff'[s].pc = "upsert"
               /\ \A x \in Staff : x # s => staff'[x] = staff[x]
               /\ act \notin ReviewActs /\ act # "hide" /\ UNCHANGED ordered
    BY <2>2 DEF AdminLookup, IndInv, TypeOK, dbVars, history, AdminActs, ReviewActs
  <2> QED
    BY <2>1, <2>2
<1>2. \A d \in Content : ~Restores(staff[s], d)
  BY <1>1 DEF Restores
<1>3. CASE act \in {"reverse", "restoreContent"}
  <2>1. \A d \in Content : Restores(staff'[s], d) <=> d = c
    BY <1>1, <1>3 DEF Restores, ReviewActs, AdminActs
  <2>2. UNCHANGED ordered
    BY <1>1, <1>3
  <2> QED
    BY <1>1, <1>2, <2>1, <2>2, SameGrounds, RestoringBegins, Begins
<1>4. CASE act \notin {"reverse", "restoreContent"}
  <2>1. \A d \in Content : Restores(staff'[s], d) <=> Restores(staff[s], d)
    BY <1>1, <1>2, <1>4 DEF Restores
  <2>2. Restoring' = Restoring
    BY <1>1, <2>1, SameRestoring
  <2>3. \A d \in Content : d # c => (d \in ordered' <=> d \in ordered)
    BY <1>1
  <2>4. \A d \in Content : d # c => Grounds(d)' = Grounds(d)
    BY <1>1, <2>3, GroundsOf
  <2>5. /\ \A other \in {"ai", "staff", "flags"} \ {"staff"} : other \in Grounds(c)' <=> other \in Grounds(c)
        /\ "staff" \in Grounds(c) => "staff" \in Grounds(c)'
    BY <1>1, GroundsOf
  <2> QED
    BY <1>1, <2>2, <2>4, <2>5, Accuses
<1> QED
  BY <1>3, <1>4

(* What the steps of a moderator's call that end it, or move it on, leave  *)
(* of the call.                                                            *)
LEMMA StaffMovesOn ==
  ASSUME IndInv, NEW s \in Staff, NEW pc, NEW next, StaffMoves(s, pc, next)
  PROVE  /\ staff[s].pc = pc /\ \A x \in Staff : x # s => staff'[x] = staff[x]
         /\ next = "idle" => staff'[s].pc = "idle"
         /\ next # "idle" => /\ staff'[s].pc = next /\ staff'[s].item = staff[s].item
                             /\ staff'[s].act = staff[s].act
BY DEF StaffMoves, IdleStaff, IndInv, TypeOK, StaffState

(* The step that writes is_hidden.                                         *)
LEMMA SourceRefines ==
  ASSUME IndInv, SourceInv, NEW s \in Staff, NEW ok \in BOOLEAN,
         ResolveSource(s, ok) \/ AdminSource(s, ok)
  PROVE  VisibleStep
<1>1. /\ staff[s].pc \in {"resolveSource", "source"} /\ staff'[s].pc \in {"resolveAudit", "idle"}
      /\ \A x \in Staff : x # s => staff'[x] = staff[x]
      /\ UNCHANGED <<judged, ordered, flags>>
  <2>1. CASE ResolveSource(s, ok)
    <3>1. StaffMoves(s, "resolveSource", "resolveAudit") /\ UNCHANGED <<judged, ordered, flags>>
      BY <2>1 DEF ResolveSource
    <3> QED
      BY <3>1, StaffMovesOn
  <2>2. CASE AdminSource(s, ok)
    <3>1. StaffMoves(s, "source", "idle") /\ UNCHANGED <<judged, ordered, flags>>
      BY <2>2 DEF AdminSource
    <3> QED
      BY <3>1, StaffMovesOn
  <2> QED
    BY <2>1, <2>2
<1>2. PICK c \in Content : c = staff[s].item
  BY <1>1 DEF IndInv, BusyInv
<1>3. \A d \in Content : ~Restores(staff'[s], d)
  BY <1>1 DEF Restores
<1>4. CASE ~ok
  <2>1. UNCHANGED hidden
    BY <1>4 DEF ResolveSource, AdminSource
  <2> QED
    BY <1>1, <1>2, <1>3, <2>1, StaffUnseen
<1>5. CASE ok /\ staff[s].act \in {"reverse", "restoreContent"}
  <2>1. /\ staff[s].pc = "resolveSource" => staff[s].act = "reverse"
        /\ staff[s].pc = "source" => staff[s].act = "restoreContent"
    BY <1>1, <1>5 DEF IndInv, BusyInv, ReviewActs, AdminActs
  <2>2. hidden' = [hidden EXCEPT ![c] = FALSE]
    <3>1. CASE ResolveSource(s, ok)
      <4>1. hidden' = [hidden EXCEPT ![c] = (staff[s].act = "hide")] /\ staff[s].act # "hide"
        BY <1>1, <1>2, <1>5, <3>1 DEF ResolveSource, SetHidden
      <4> QED
        BY <4>1
    <3>2. CASE AdminSource(s, ok)
      <4>1. /\ hidden' = [hidden EXCEPT ![c] = (staff[s].act # "restoreContent")]
            /\ staff[s].pc = "source"
        BY <1>2, <1>5, <3>2 DEF AdminSource, SetHidden, StaffMoves
      <4> QED
        BY <2>1, <4>1
    <3> QED
      BY <3>1, <3>2
  <2>3. \A d \in Content : Restores(staff[s], d) <=> d = c
    BY <1>1, <1>2, <2>1 DEF Restores
  <2>4. c \in Restoring /\ Restoring' \in {Restoring, Restoring \ {c}}
    BY <1>1, <1>3, <2>3, RestoringEnds
  <2> QED
    BY <1>1, <2>2, <2>4, SameGrounds, RestoresSeen
<1>6. CASE ok /\ staff[s].act \notin {"reverse", "restoreContent"}
  <2>1. /\ staff[s].pc = "resolveSource" => staff[s].act = "hide"
        /\ staff[s].pc = "source" => staff[s].act \in {"hideContent", "deleteContent"}
    BY <1>1, <1>6 DEF IndInv, BusyInv, ReviewActs, AdminActs, SourceInv
  <2>2. hidden' = [hidden EXCEPT ![c] = TRUE]
    <3>1. CASE ResolveSource(s, ok)
      <4>1. hidden' = [hidden EXCEPT ![c] = (staff[s].act = "hide")] /\ staff[s].pc = "resolveSource"
        BY <1>2, <1>6, <3>1 DEF ResolveSource, SetHidden, StaffMoves
      <4> QED
        BY <2>1, <4>1
    <3>2. CASE AdminSource(s, ok)
      <4>1. hidden' = [hidden EXCEPT ![c] = (staff[s].act # "restoreContent")]
        BY <1>2, <1>6, <3>2 DEF AdminSource, SetHidden
      <4> QED
        BY <1>6, <4>1
    <3> QED
      BY <3>1, <3>2
  <2>3. c \in ordered
    BY <1>1, <1>2, <1>6, <2>1 DEF IndInv, GroundsInv
  <2>4. Grounds(c) # {}
    BY <2>3, GroundsOf
  <2>5. \A d \in Content : ~Restores(staff[s], d)
    BY <1>6 DEF Restores
  <2>6. Restoring' = Restoring
    BY <1>1, <1>3, <2>5, SameRestoring
  <2> QED
    BY <1>1, <2>2, <2>4, <2>6, SameGrounds, Hides
<1> QED
  BY <1>4, <1>5, <1>6

LEMMA AdminUpsertRefines ==
  ASSUME IndInv, NEW s \in Staff, NEW ok \in BOOLEAN, AdminUpsert(s, ok)
  PROVE  VisibleStep
<1>1. PICK next \in {"source", "idle"} :
        StaffMoves(s, "upsert", next) /\ UNCHANGED <<hidden, judged, flags>>
  BY DEF AdminUpsert
<1>2. /\ staff[s].pc = "upsert" /\ \A x \in Staff : x # s => staff'[x] = staff[x]
      /\ next = "idle" => staff'[s].pc = "idle"
      /\ next = "source" => /\ staff'[s].pc = next /\ staff'[s].item = staff[s].item
                            /\ staff'[s].act = staff[s].act
  BY <1>1, StaffMovesOn
<1>3. PICK c \in Content : c = staff[s].item
  BY <1>2 DEF IndInv, BusyInv
<1>4. CASE staff[s].act = "restoreContent"
  <2>1. UNCHANGED ordered
    BY <1>4 DEF AdminUpsert
  <2>2. \/ \A d \in Content : Restores(staff'[s], d) <=> Restores(staff[s], d)
        \/ \A d \in Content : ~Restores(staff'[s], d)
    BY <1>2 DEF Restores
  <2> QED
    BY <1>1, <1>2, <1>3, <2>1, <2>2, StaffUnseen
<1>5. CASE staff[s].act # "restoreContent"
  <2>1. ordered' \in {ordered, ordered \cup {c}}
    BY <1>3 DEF AdminUpsert
  <2>2. \A d \in Content : Restores(staff'[s], d) <=> Restores(staff[s], d)
    BY <1>2, <1>5 DEF Restores
  <2>3. Restoring' = Restoring
    BY <1>2, <2>2, SameRestoring
  <2>4. \A d \in Content : d # c => Grounds(d)' = Grounds(d)
    BY <1>1, <2>1, SameGroundsOf
  <2>5. /\ \A other \in {"ai", "staff", "flags"} \ {"staff"} : other \in Grounds(c)' <=> other \in Grounds(c)
        /\ "staff" \in Grounds(c) => "staff" \in Grounds(c)'
    BY <1>1, <2>1, GroundsOf
  <2> QED
    BY <1>1, <2>3, <2>4, <2>5, Accuses
<1> QED
  BY <1>4, <1>5

LEMMA ResolveRefines ==
  ASSUME IndInv, NEW s \in Staff,
         \/ \E ok \in BOOLEAN : ResolveQueue(s, ok) \/ ResolveAudit(s, ok) \/ ResolveLog(s, ok)
         \/ CrashStaff(s)
  PROVE  VisibleStep
<1>1. UNCHANGED <<hidden, judged, ordered, flags>>
  BY DEF ResolveQueue, ResolveAudit, ResolveLog, CrashStaff, dbVars, history
<1>2. staff[s].pc # "idle" => staff[s].item \in Content
  BY DEF IndInv, BusyInv
<1>3. CASE CrashStaff(s)
  <2>1. /\ staff[s].pc # "idle" /\ staff'[s].pc = "idle"
        /\ \A x \in Staff : x # s => staff'[x] = staff[x]
    BY <1>3 DEF CrashStaff, IdleStaff, IndInv, TypeOK
  <2>2. \A d \in Content : ~Restores(staff'[s], d)
    BY <2>1 DEF Restores
  <2> QED
    BY <1>1, <1>2, <2>1, <2>2, StaffUnseen
<1>4. ASSUME NEW ok \in BOOLEAN, ResolveQueue(s, ok) PROVE VisibleStep
  <2>1. PICK next \in {"resolveAudit", "resolveSource"} : 
          /\ StaffMoves(s, "resolveQueue", next)
          /\ next = "resolveAudit" => staff[s].act = "confirm"
    BY <1>4 DEF ResolveQueue
  <2>2. /\ staff[s].pc = "resolveQueue" /\ \A x \in Staff : x # s => staff'[x] = staff[x]
        /\ staff'[s].pc = next /\ staff'[s].item = staff[s].item /\ staff'[s].act = staff[s].act
    BY <2>1, StaffMovesOn
  <2>3. \A d \in Content : Restores(staff'[s], d) <=> Restores(staff[s], d)
    BY <2>1, <2>2 DEF Restores
  <2> QED
    BY <1>1, <2>2, <2>3, StaffUnseen
<1>5. ASSUME NEW ok \in BOOLEAN, ResolveAudit(s, ok) \/ ResolveLog(s, ok) PROVE VisibleStep
  <2>1. PICK pc \in {"resolveAudit", "resolveLog"}, next \in {"resolveLog", "idle"} :
          StaffMoves(s, pc, next)
    BY <1>5 DEF ResolveAudit, ResolveLog
  <2>2. /\ staff[s].pc \in {"resolveAudit", "resolveLog"}
        /\ staff'[s].pc \in {"resolveLog", "idle"}
        /\ \A x \in Staff : x # s => staff'[x] = staff[x]
    BY <2>1, StaffMovesOn
  <2>3. \A d \in Content : Restores(staff'[s], d) <=> Restores(staff[s], d)
    BY <2>2 DEF Restores
  <2> QED
    BY <1>1, <2>2, <2>3, StaffUnseen
<1> QED
  BY <1>3, <1>4, <1>5

LEMMA SourceKept == IndInv /\ SourceInv /\ [Next]_vars => SourceInv'
<1> SUFFICES ASSUME IndInv, SourceInv, [Next]_vars PROVE SourceInv'
  OBVIOUS
<1>1. CASE UNCHANGED staff
  BY <1>1 DEF SourceInv
<1>2. ASSUME NEW s \in Staff, \A x \in Staff : x # s => staff'[x] = staff[x],
             staff'[s].pc = "resolveSource" => staff'[s].act # "confirm"
      PROVE  SourceInv'
  BY <1>2 DEF SourceInv
<1>3. ASSUME NEW s \in Staff, NEW c \in Content, NEW act \in ReviewActs, ResolveRead(s, c, act)
      PROVE  SourceInv'
  <2>1. /\ \A x \in Staff : x # s => staff'[x] = staff[x]
        /\ staff'[s].pc = "resolveQueue"
    BY <1>3 DEF ResolveRead, IdleStaff, IndInv, TypeOK
  <2> QED
    BY <1>2, <2>1
<1>4. ASSUME NEW s \in Staff, NEW c \in Content, NEW act \in AdminActs, NEW ok \in BOOLEAN,
             AdminLookup(s, c, act, ok)
      PROVE  SourceInv'
  <2>1. /\ \A x \in Staff : x # s => staff'[x] = staff[x]
        /\ staff'[s].pc = "upsert"
    BY <1>4 DEF AdminLookup, IndInv, TypeOK
  <2> QED
    BY <1>2, <2>1
<1>5. ASSUME NEW s \in Staff, StaffStep(s) \/ CrashStaff(s) PROVE SourceInv'
  <2>1. CASE CrashStaff(s)
    <3>1. staff'[s].pc = "idle" /\ \A x \in Staff : x # s => staff'[x] = staff[x]
      BY <2>1 DEF CrashStaff, IdleStaff, IndInv, TypeOK
    <3> QED
      BY <1>2, <3>1
  <2>2. ASSUME NEW ok \in BOOLEAN, ResolveQueue(s, ok) PROVE SourceInv'
    <3>1. PICK next \in {"resolveAudit", "resolveSource"} : 
            /\ StaffMoves(s, "resolveQueue", next)
            /\ next = "resolveSource" => staff[s].act # "confirm"
      BY <2>2 DEF ResolveQueue
    <3>2. /\ \A x \in Staff : x # s => staff'[x] = staff[x]
          /\ staff'[s].pc = next /\ staff'[s].act = staff[s].act
      BY <3>1, StaffMovesOn
    <3> QED
      BY <1>2, <3>1, <3>2
  <2>3. ASSUME NEW ok \in BOOLEAN,
               \/ ResolveSource(s, ok) \/ ResolveAudit(s, ok) \/ ResolveLog(s, ok)
               \/ AdminUpsert(s, ok) \/ AdminSource(s, ok)
        PROVE  SourceInv'
    <3>1. PICK pc \in {"resolveSource", "resolveAudit", "resolveLog", "upsert", "source"},
               next \in {"resolveAudit", "resolveLog", "source", "idle"} : StaffMoves(s, pc, next)
      BY <2>3 DEF ResolveSource, ResolveAudit, ResolveLog, AdminUpsert, AdminSource
    <3>2. staff'[s].pc = next /\ \A x \in Staff : x # s => staff'[x] = staff[x]
      BY <3>1, StaffMovesOn
    <3> QED
      BY <1>2, <3>2
  <2> QED
    BY <1>5, <2>1, <2>2, <2>3 DEF StaffStep
<1>6. UNCHANGED staff \/ \E s \in Staff :
        \/ \E c \in Content, act \in ReviewActs : ResolveRead(s, c, act)
        \/ \E c \in Content, act \in AdminActs, ok \in BOOLEAN : AdminLookup(s, c, act, ok)
        \/ StaffStep(s)
        \/ CrashStaff(s)
  BY DEF Next, Post, Stall, Purge, SweepAdd, SweepQuery, CrashSweep, Fetch, WorkerStep, CrashWorker,
         CheckOverrides, BuildFails, SkipShort, NotConfigured, JudgeFails, Judge, Plan, AuditLookup,
         AuditWrite, HideSource, ReviewLookup, ReviewWrite, Finish, FlagInsert, ReporterStep,
         FlagCount, FlagHide, CrashReporter, vars, actors
<1> QED
  BY <1>1, <1>3, <1>4, <1>5, <1>6

LEMMA NextRefines == IndInv /\ SourceInv /\ [Next]_vars => VisibleStep
<1> SUFFICES ASSUME IndInv, SourceInv, [Next]_vars PROVE VisibleStep
  OBVIOUS
<1>1. CASE UNCHANGED vars
  BY <1>1, AsideUnseen DEF vars, dbVars, actors, history
<1>2. ASSUME NEW s \in Staff,
             \/ \E c \in Content, act \in ReviewActs : ResolveRead(s, c, act)
             \/ \E c \in Content, act \in AdminActs, ok \in BOOLEAN : AdminLookup(s, c, act, ok)
             \/ StaffStep(s)
             \/ CrashStaff(s)
      PROVE  VisibleStep
  BY <1>2, StaffBeginRefines, SourceRefines, AdminUpsertRefines, ResolveRefines DEF StaffStep
<1> QED
  BY <1>1, <1>2, WorkersRefine, QueueRefines, ReportersRefine DEF Next

LEMMA InitRefines == Init => Visibility!Init
<1> SUFFICES ASSUME Init PROVE Visibility!Init
  OBVIOUS
<1>1. \A c \in Content : Grounds(c) = {}
  <2>1. Cardinality({}) = 0
    BY FS_EmptySet
  <2> QED
    BY <2>1, GroundsOf DEF Init, FlagThreshold
<1>2. Restoring = {}
  BY DEF Init, IdleStaff, Restoring
<1> QED
  BY <1>1, <1>2 DEF Init, Visibility!Init

(* The pipeline implements ContentVisibility: every step of every handler  *)
(* hides on grounds that exist at that moment, restores on a call of a     *)
(* moderator that is in progress, or changes nobody's visibility, whatever *)
(* fails, dies or is delivered twice.                                      *)
THEOREM VisibilityRefinement == Spec => ImplementsContentVisibility
<1>1. Init => SourceInv
  BY DEF Init, IdleStaff, SourceInv
<1>2. Spec => []SourceInv
  BY <1>1, SourceKept, Invariance, PTL DEF Spec
<1>3. IndInv /\ SourceInv /\ [Next]_vars => [Visibility!Next]_(Visibility!vars)
  BY NextRefines DEF VisibleStep
<1> QED
  BY <1>2, <1>3, InitRefines, Invariance, PTL DEF Spec, ImplementsContentVisibility, Visibility!Spec


----------------------------------------------------------------------------
(* Reversals.  While nothing has failed, died, stalled or been dropped, a  *)
(* job is run once: an item has a review row only when its worker is done  *)
(* with it, so what moderators record is not written over.                 *)

Calm == Untroubled /\ budget.stalls = 0 /\ budget.purges = 0

Works(w, c) == worker[w].pc # "idle" /\ worker[w].item = c

(* A job is active for as long as its worker runs it.                      *)
JobsOK ==
  /\ sweepFound \subseteq posted
  /\ \A c \in Content :
       /\ c \notin posted => job[c].state = "none"
       /\ job[c].state = "active" => \E w \in Workers : job[c].owner = w /\ Works(w, c)
  /\ \A w \in Workers : worker[w].pc # "idle" =>
       job[worker[w].item].state = "active" /\ job[worker[w].item].owner = w

AuditedPcs == {"hide", "reviewLookup", "reviewWrite", "finish"}

(* The review row is the last its worker writes, the audit row the first.  *)
RowsOK ==
  /\ \A c \in Content : /\ job[c].state \in {"none", "waiting"} => ~review[c].row
                        /\ review[c].row => audit[c].row
  /\ \A w \in Workers :
       /\ worker[w].pc \notin {"idle", "finish"} => ~review[worker[w].item].row
       /\ worker[w].pc \in AuditedPcs => audit[worker[w].item].row

Resolving == {"resolveQueue", "resolveSource", "resolveAudit", "resolveLog"}
Reverses(k, c, pcs) == k.item = c /\ k.act = "reverse" /\ k.pc \in pcs

(* What a reversal has yet to record, some moderator is about to.          *)
ReversedOK(c) ==
  review[c].row /\ review[c].resolution = "reverse" =>
    /\ \/ c \in disagreements
       \/ \E s \in Staff : Reverses(staff[s], c, {"resolveSource", "resolveAudit", "resolveLog"})
    /\ \/ audit[c].moderated_by = "human"
       \/ \E s \in Staff : Reverses(staff[s], c, {"resolveSource", "resolveAudit"})

StaffOK ==
  /\ \A c \in Content : ReversedOK(c)
  /\ \A s \in Staff : staff[s].pc \in Resolving => review[staff[s].item].row

CalmInv == Calm => JobsOK /\ RowsOK /\ StaffOK

(* Calm is not restored.                                                   *)
LEMMA CalmStays ==
  ASSUME IndInv,
         \/ UNCHANGED budget
         \/ \E n \in Nat : Failing(n)
         \/ Crashing
         \/ budget' = [budget EXCEPT !.stalls = @ + 1]
         \/ budget' = [budget EXCEPT !.purges = @ + 1],
         Calm'
  PROVE  Calm
<1>1. budget \in Budget
  BY DEF IndInv, TypeOK
<1> QED
  BY <1>1 DEF Budget, Calm, Untroubled, Failing, Crashing

LEMMA BudgetMoves ==
  ASSUME [Next]_vars
  PROVE  \/ UNCHANGED budget
         \/ \E n \in Nat : Failing(n)
         \/ Crashing
         \/ budget' = [budget EXCEPT !.stalls = @ + 1]
         \/ budget' = [budget EXCEPT !.purges = @ + 1]
<1> DEFINE Moves == \/ UNCHANGED budget
                    \/ \E n \in Nat : Failing(n)
                    \/ Crashing
                    \/ budget' = [budget EXCEPT !.stalls = @ + 1]
                    \/ budget' = [budget EXCEPT !.purges = @ + 1]
<1>1. ASSUME NEW ok \in BOOLEAN, Statement(ok) PROVE Moves
  <2>1. PICK n \in Nat : n = IF ok THEN 0 ELSE 1
    OBVIOUS
  <2> QED
    BY <1>1, <2>1 DEF Statement
<1>2. ASSUME NEW c \in Content,
             \/ \E enqueued \in BOOLEAN : Post(c, enqueued)
             \/ Stall(c) \/ Purge(c)
             \/ \E ok \in BOOLEAN : SweepAdd(c, ok)
      PROVE  Moves
  BY <1>1, <1>2 DEF Post, Stall, Purge, SweepAdd
<1>3. CASE SweepQuery \/ CrashSweep
  BY <1>3 DEF SweepQuery, CrashSweep
<1>4. ASSUME NEW w \in Workers,
             \/ \E c \in Content : Fetch(w, c)
             \/ WorkerStep(w)
             \/ CrashWorker(w)
      PROVE  Moves
  <2>1. ASSUME NEW okRole \in BOOLEAN, NEW okAudit \in BOOLEAN, CheckOverrides(w, okRole, okAudit)
        PROVE  Moves
    <3>1. PICK n \in Nat : n = (IF okRole THEN 0 ELSE 1) + (IF okAudit THEN 0 ELSE 1)
      OBVIOUS
    <3> QED
      BY <2>1, <3>1 DEF CheckOverrides
  <2>2. CASE \/ BuildFails(w) \/ SkipShort(w) \/ NotConfigured(w) \/ JudgeFails(w) \/ Finish(w)
             \/ (\E v \in Verdicts : Judge(w, v)) \/ (\E c \in Content : Fetch(w, c))
    BY <2>2 DEF BuildFails, SkipShort, NotConfigured, JudgeFails, Finish, Judge, Fetch
  <2>3. ASSUME NEW ok \in BOOLEAN,
               \/ AuditLookup(w, ok) \/ AuditWrite(w, ok) \/ HideSource(w, ok)
               \/ ReviewLookup(w, ok) \/ ReviewWrite(w, ok)
        PROVE  Moves
    BY <1>1, <2>3 DEF AuditLookup, AuditWrite, HideSource, ReviewLookup, ReviewWrite
  <2>4. CASE CrashWorker(w)
    BY <2>4 DEF CrashWorker
  <2> QED
    BY <1>4, <2>1, <2>2, <2>3, <2>4 DEF WorkerStep
<1>5. ASSUME NEW s \in Staff,
             \/ \E c \in Content, act \in ReviewActs : ResolveRead(s, c, act)
             \/ \E c \in Content, act \in AdminActs, ok \in BOOLEAN : AdminLookup(s, c, act, ok)
             \/ StaffStep(s)
             \/ CrashStaff(s)
      PROVE  Moves
  BY <1>1, <1>5 DEF ResolveRead, AdminLookup, StaffStep, ResolveQueue, ResolveSource, ResolveAudit,
                    ResolveLog, AdminUpsert, AdminSource, CrashStaff
<1>6. ASSUME NEW r \in Reporters,
             \/ \E c \in Content : FlagInsert(r, c)
             \/ ReporterStep(r)
             \/ CrashReporter(r)
      PROVE  Moves
  BY <1>1, <1>6 DEF FlagInsert, ReporterStep, FlagCount, FlagHide, CrashReporter
<1> QED
  BY <1>2, <1>3, <1>4, <1>5, <1>6 DEF Next, vars

LEMMA CalmGoesWell ==
  ASSUME IndInv, NEW ok \in BOOLEAN, Statement(ok), Calm'
  PROVE  ok
BY StatementGoesWell DEF Calm

LEMMA NothingCrashes ==
  ASSUME IndInv, Crashing, Calm'
  PROVE  FALSE
BY CrashIsTrouble DEF Calm

----------------------------------------------------------------------------
(* Who keeps what                                                          *)

LEMMA StaffSame ==
  ASSUME StaffOK, UNCHANGED <<review, audit, disagreements, staff>>
  PROVE  StaffOK'
BY DEF StaffOK, ReversedOK

LEMMA JobsSame ==
  ASSUME JobsOK, UNCHANGED <<posted, job, sweepFound, worker>>
  PROVE  JobsOK'
BY DEF JobsOK, Works

(* Moderators and reporters delete no row, and queue no review.            *)
LEMMA RowsStay ==
  ASSUME RowsOK, UNCHANGED <<job, worker>>,
         \A c \in Content : review'[c].row <=> review[c].row,
         \A c \in Content : audit[c].row => audit'[c].row,
         IndInv
  PROVE  RowsOK'
<1>1. \A w \in Workers : worker[w].pc # "idle" => worker[w].item \in Content
  BY DEF IndInv, BusyInv
<1> QED
  BY <1>1 DEF RowsOK, AuditedPcs

(* A step of a worker in the middle of a job.                              *)
LEMMA JobGoesOn ==
  ASSUME JobsOK, NEW w \in Workers, UNCHANGED <<posted, job, sweepFound>>,
         worker[w].pc # "idle", worker'[w].pc # "idle", worker'[w].item = worker[w].item,
         \A x \in Workers : x # w => worker'[x] = worker[x]
  PROVE  JobsOK'
<1>1. ASSUME NEW c \in Content, NEW x \in Workers, Works(x, c) PROVE Works(x, c)'
  BY <1>1 DEF Works
<1>2. ASSUME NEW c \in Content, job[c].state = "active"
      PROVE  \E x \in Workers : job[c].owner = x /\ Works(x, c)'
  BY <1>1, <1>2 DEF JobsOK
<1>3. ASSUME NEW x \in Workers, worker'[x].pc # "idle"
      PROVE  job[worker'[x].item].state = "active" /\ job[worker'[x].item].owner = x
  <2>1. worker[x].pc # "idle" /\ worker'[x].item = worker[x].item
    BY <1>3
  <2> QED
    BY <2>1 DEF JobsOK
<1> QED
  BY <1>2, <1>3 DEF JobsOK

(* No two workers have the same item.                                      *)
LEMMA OneWorker ==
  ASSUME JobsOK, NEW w \in Workers, NEW x \in Workers, x # w,
         worker[w].pc # "idle", worker[x].pc # "idle"
  PROVE  worker[x].item # worker[w].item
BY DEF JobsOK

LEMMA PostCalm ==
  ASSUME IndInv, JobsOK, RowsOK, StaffOK, NEW c \in Content, NEW enqueued \in BOOLEAN, Post(c, enqueued)
  PROVE  JobsOK' /\ RowsOK' /\ StaffOK'
<1>1. /\ UNCHANGED <<review, audit, disagreements, staff, worker, sweepFound>>
      /\ posted' = posted \cup {c} /\ c \notin posted
  BY DEF Post, actors
<1>2. job[c].state = "none"
  BY <1>1 DEF JobsOK
<1>3. /\ \A d \in Content : d # c => job'[d] = job[d]
      /\ job'[c].state \in {"none", "waiting"}
  BY <1>2 DEF Post, Waiting, IndInv, TypeOK
<1>4. \A w \in Workers : worker[w].pc # "idle" => worker[w].item \in Content /\ worker[w].item # c
  BY <1>2 DEF JobsOK, IndInv, BusyInv
<1>5. JobsOK'
  <2>1. ASSUME NEW d \in Content, job'[d].state = "active"
        PROVE  \E w \in Workers : job'[d].owner = w /\ Works(w, d)'
    BY <1>1, <1>3, <2>1 DEF JobsOK, Works
  <2>2. \A d \in Content : d \notin posted' => job'[d].state = "none"
    BY <1>1, <1>3 DEF JobsOK
  <2>3. ASSUME NEW w \in Workers, worker'[w].pc # "idle"
        PROVE  job'[worker'[w].item].state = "active" /\ job'[worker'[w].item].owner = w
    BY <1>1, <1>3, <1>4, <2>3 DEF JobsOK
  <2> QED
    BY <1>1, <2>1, <2>2, <2>3 DEF JobsOK
<1>6. RowsOK'
  BY <1>1, <1>2, <1>3 DEF RowsOK
<1> QED
  BY <1>1, <1>5, <1>6, StaffSame

LEMMA FetchCalm ==
  ASSUME IndInv, JobsOK, RowsOK, StaffOK, NEW w \in Workers, NEW c \in Content, Fetch(w, c)
  PROVE  JobsOK' /\ RowsOK' /\ StaffOK'
<1>1. /\ UNCHANGED <<posted, review, audit, disagreements, staff, sweepFound>>
      /\ worker[w].pc = "idle" /\ job[c].state = "waiting"
  BY DEF Fetch, dbVars
<1>2. /\ \A d \in Content : d # c => job'[d] = job[d]
      /\ job'[c].state = "active" /\ job'[c].owner = w
  BY DEF Fetch, IndInv, TypeOK, Job
<1>3. /\ \A x \in Workers : x # w => worker'[x] = worker[x]
      /\ worker'[w].pc = "overrides" /\ worker'[w].item = c
  BY DEF Fetch, IdleWorker, IndInv, TypeOK
<1>4. \A x \in Workers : worker[x].pc # "idle" =>
        x # w /\ worker[x].item \in Content /\ worker[x].item # c
  BY <1>1 DEF JobsOK, IndInv, BusyInv
<1>5. JobsOK'
  <2>1. ASSUME NEW d \in Content, job'[d].state = "active"
        PROVE  \E x \in Workers : job'[d].owner = x /\ Works(x, d)'
    <3>1. CASE d = c
      BY <1>2, <1>3, <3>1 DEF Works
    <3>2. CASE d # c
      <4>1. PICK x \in Workers : job[d].owner = x /\ Works(x, d)
        BY <1>2, <2>1, <3>2 DEF JobsOK
      <4>2. Works(x, d)'
        BY <1>3, <1>4, <4>1 DEF Works
      <4> QED
        BY <1>2, <3>2, <4>1, <4>2
    <3> QED
      BY <3>1, <3>2
  <2>2. \A d \in Content : d \notin posted' => job'[d].state = "none"
    <3>1. c \in posted
      BY <1>1 DEF JobsOK
    <3> QED
      BY <1>1, <1>2, <3>1 DEF JobsOK
  <2>3. ASSUME NEW x \in Workers, worker'[x].pc # "idle"
        PROVE  job'[worker'[x].item].state = "active" /\ job'[worker'[x].item].owner = x
    <3>1. CASE x = w
      BY <1>2, <1>3, <3>1
    <3>2. CASE x # w
      BY <1>2, <1>3, <1>4, <2>3, <3>2 DEF JobsOK
    <3> QED
      BY <3>1, <3>2
  <2> QED
    BY <1>1, <2>1, <2>2, <2>3 DEF JobsOK
<1>6. RowsOK'
  <2>1. ~review[c].row
    BY <1>1 DEF RowsOK
  <2>2. \A d \in Content : /\ job'[d].state \in {"none", "waiting"} => ~review[d].row
                           /\ review[d].row => audit[d].row
    BY <1>2 DEF RowsOK
  <2>3. \A x \in Workers :
          /\ worker'[x].pc \notin {"idle", "finish"} => ~review[worker'[x].item].row
          /\ worker'[x].pc \in AuditedPcs => audit[worker'[x].item].row
    BY <1>3, <2>1 DEF RowsOK, AuditedPcs
  <2> QED
    BY <1>1, <2>2, <2>3 DEF RowsOK
<1> QED
  BY <1>1, <1>5, <1>6, StaffSame

LEMMA SweepCalm ==
  ASSUME IndInv, JobsOK, RowsOK, StaffOK,
         (\E c \in Content, ok \in BOOLEAN : SweepAdd(c, ok)) \/ SweepQuery
  PROVE  JobsOK' /\ RowsOK' /\ StaffOK'
<1>1. UNCHANGED <<posted, review, audit, disagreements, staff, worker>>
  BY DEF SweepAdd, SweepQuery, dbVars, actors
<1>2. sweepFound' \subseteq posted
  <2>1. CASE SweepQuery
    BY <2>1 DEF SweepQuery, Unmoderated
  <2>2. CASE \E c \in Content, ok \in BOOLEAN : SweepAdd(c, ok)
    BY <2>2 DEF SweepAdd, JobsOK
  <2> QED
    BY <2>1, <2>2
<1>3. \A d \in Content : job'[d] = job[d] \/ (d \in posted /\ job[d].state = "none" /\ job'[d].state = "waiting")
  <2>1. CASE SweepQuery
    BY <2>1 DEF SweepQuery
  <2>2. ASSUME NEW c \in Content, NEW ok \in BOOLEAN, SweepAdd(c, ok)
        PROVE  \A d \in Content : job'[d] = job[d] \/ (d \in posted /\ job[d].state = "none" /\ job'[d].state = "waiting")
    BY <2>2 DEF SweepAdd, Waiting, JobsOK, IndInv, TypeOK
  <2> QED
    BY <2>1, <2>2
<1>4. \A w \in Workers : worker[w].pc # "idle" => worker[w].item \in Content
  BY DEF IndInv, BusyInv
<1>5. JobsOK'
  <2>1. ASSUME NEW d \in Content, job'[d].state = "active"
        PROVE  \E w \in Workers : job'[d].owner = w /\ Works(w, d)'
    BY <1>1, <1>3, <2>1 DEF JobsOK, Works
  <2>2. \A d \in Content : d \notin posted => job'[d].state = "none"
    BY <1>3 DEF JobsOK
  <2>3. ASSUME NEW w \in Workers, worker'[w].pc # "idle"
        PROVE  job'[worker'[w].item].state = "active" /\ job'[worker'[w].item].owner = w
    <3>1. job[worker[w].item].state = "active" /\ job[worker[w].item].owner = w
      BY <1>1, <2>3 DEF JobsOK
    <3>2. job'[worker[w].item] = job[worker[w].item]
      BY <1>1, <1>3, <1>4, <2>3, <3>1
    <3> QED
      BY <1>1, <3>1, <3>2
  <2> QED
    BY <1>1, <1>2, <2>1, <2>2, <2>3 DEF JobsOK
<1>6. RowsOK'
  BY <1>1, <1>3 DEF RowsOK
<1> QED
  BY <1>1, <1>5, <1>6, StaffSame

(* An active job whose worker runs it is not abandoned.                    *)
LEMMA NothingStalls ==
  ASSUME IndInv, JobsOK, NEW c \in Content, Stall(c) \/ Purge(c), Calm'
  PROVE  FALSE
<1>1. budget \in Budget
  BY DEF IndInv, TypeOK
<1>2. ~(budget' = [budget EXCEPT !.stalls = @ + 1]) /\ ~(budget' = [budget EXCEPT !.purges = @ + 1])
  BY <1>1 DEF Budget, Calm
<1>3. Abandoned(c) /\ job[c].state = "active"
  BY <1>2 DEF Stall, Purge
<1> QED
  BY <1>3 DEF Abandoned, JobsOK, Works

LEMMA FinishCalm ==
  ASSUME IndInv, JobsOK, RowsOK, StaffOK, NEW w \in Workers, Finish(w)
  PROVE  JobsOK' /\ RowsOK' /\ StaffOK'
<1>1. UNCHANGED <<posted, review, audit, disagreements, staff, sweepFound>> /\ worker[w].pc = "finish"
  BY DEF Finish
<1>2. PICK c \in Content : c = worker[w].item
  BY <1>1 DEF IndInv, BusyInv
<1>3. job[c].state = "active" /\ job[c].owner = w
  BY <1>1, <1>2 DEF JobsOK
<1>4. /\ \A d \in Content : d # c => job'[d] = job[d]
      /\ job'[c].state = "completed"
  <2>1. job' = [job EXCEPT ![c] = [@ EXCEPT !.state = "completed", !.owner = NoOwner]]
    BY <1>2, <1>3 DEF Finish
  <2> QED
    BY <2>1 DEF IndInv, TypeOK, Job
<1>5. /\ \A x \in Workers : x # w => worker'[x] = worker[x]
      /\ worker'[w].pc = "idle"
  BY DEF Finish, IdleWorker, IndInv, TypeOK
<1>6. \A x \in Workers : worker'[x].pc # "idle" =>
        /\ x # w /\ worker[x].pc # "idle" /\ worker'[x] = worker[x]
        /\ worker[x].item \in Content /\ worker[x].item # c
  BY <1>1, <1>2, <1>5, OneWorker DEF IndInv, BusyInv
<1>7. JobsOK'
  <2>1. ASSUME NEW d \in Content, job'[d].state = "active"
        PROVE  \E x \in Workers : job'[d].owner = x /\ Works(x, d)'
    <3>1. d # c
      BY <1>4, <2>1
    <3>2. PICK x \in Workers : job[d].owner = x /\ Works(x, d)
      BY <1>4, <2>1, <3>1 DEF JobsOK
    <3>3. x # w
      BY <1>2, <3>1, <3>2 DEF Works
    <3> QED
      BY <1>4, <1>5, <3>1, <3>2, <3>3 DEF Works
  <2>2. \A d \in Content : d \notin posted => job'[d].state = "none"
    BY <1>3, <1>4 DEF JobsOK
  <2>3. ASSUME NEW x \in Workers, worker'[x].pc # "idle"
        PROVE  job'[worker'[x].item].state = "active" /\ job'[worker'[x].item].owner = x
    BY <1>4, <1>6, <2>3 DEF JobsOK
  <2> QED
    BY <1>1, <2>1, <2>2, <2>3 DEF JobsOK
<1>8. RowsOK'
  <2>1. \A x \in Workers :
          /\ worker'[x].pc \notin {"idle", "finish"} => ~review[worker'[x].item].row
          /\ worker'[x].pc \in AuditedPcs => audit[worker'[x].item].row
    BY <1>6 DEF RowsOK, AuditedPcs
  <2> QED
    BY <1>1, <1>3, <1>4, <2>1 DEF RowsOK
<1> QED
  BY <1>1, <1>7, <1>8, StaffSame

(* A step of a worker that writes neither an audit nor a review row.       *)
LEMMA PlainWork ==
  ASSUME IndInv, JobsOK, RowsOK, StaffOK, NEW w \in Workers,
         UNCHANGED <<posted, job, sweepFound, review, audit, disagreements, staff>>,
         \A x \in Workers : x # w => worker'[x] = worker[x],
         worker[w].pc \notin {"idle", "finish"}, worker'[w].pc # "idle",
         worker'[w].item = worker[w].item,
         worker'[w].pc \in AuditedPcs => worker[w].pc \in AuditedPcs
  PROVE  JobsOK' /\ RowsOK' /\ StaffOK'
<1>1. JobsOK'
  BY JobGoesOn
<1>2. RowsOK'
  BY DEF RowsOK
<1> QED
  BY <1>1, <1>2, StaffSame

LEMMA JudgeCalm ==
  ASSUME IndInv, JobsOK, RowsOK, StaffOK, NEW w \in Workers,
         \/ \E okRole, okAudit \in BOOLEAN : CheckOverrides(w, okRole, okAudit)
         \/ BuildFails(w) \/ SkipShort(w) \/ NotConfigured(w) \/ JudgeFails(w)
         \/ \E v \in Verdicts : Judge(w, v)
  PROVE  JobsOK' /\ RowsOK' /\ StaffOK'
<1>1. UNCHANGED <<posted, job, sweepFound, review, audit, disagreements, staff>>
  BY DEF CheckOverrides, BuildFails, SkipShort, NotConfigured, JudgeFails, Judge, Plan, dbVars, queueVars
<1>2. worker[w] \in WorkerState
  BY DEF IndInv, TypeOK
<1> DEFINE Judges == /\ \A x \in Workers : x # w => worker'[x] = worker[x]
                     /\ worker[w].pc \in {"overrides", "judge"}
                     /\ worker'[w].pc \in {"judge", "auditLookup"}
                     /\ worker'[w].item = worker[w].item
<1>3. Judges
  <2>1. ASSUME NEW okRole \in BOOLEAN, NEW okAudit \in BOOLEAN, CheckOverrides(w, okRole, okAudit)
        PROVE  Judges
    <3>1. PICK pc \in {"auditLookup", "judge"} : worker' = [worker EXCEPT ![w].pc = pc]
      BY <2>1 DEF CheckOverrides
    <3>2. worker[w].pc = "overrides"
      BY <2>1 DEF CheckOverrides
    <3> QED
      BY <1>2, <3>1, <3>2 DEF WorkerState, IndInv, TypeOK
  <2>2. ASSUME NEW plan, Plan(w, plan)
        PROVE  Judges
    BY <1>2, <2>2 DEF Plan, WorkerState, IndInv, TypeOK
  <2> QED
    BY <2>1, <2>2 DEF BuildFails, SkipShort, NotConfigured, JudgeFails, Judge
<1> QED
  BY <1>1, <1>3, PlainWork DEF AuditedPcs

LEMMA LookupCalm ==
  ASSUME IndInv, JobsOK, RowsOK, StaffOK, NEW w \in Workers, NEW ok \in BOOLEAN,
         AuditLookup(w, ok) \/ ReviewLookup(w, ok) \/ HideSource(w, ok)
  PROVE  JobsOK' /\ RowsOK' /\ StaffOK'
<1>1. UNCHANGED <<posted, job, sweepFound, review, audit, disagreements, staff>>
  BY DEF AuditLookup, ReviewLookup, HideSource, dbVars, queueVars
<1>2. worker[w] \in WorkerState
  BY DEF IndInv, TypeOK
<1>3. /\ \A x \in Workers : x # w => worker'[x] = worker[x]
      /\ worker'[w].item = worker[w].item
      /\ \/ worker[w].pc = "auditLookup" /\ worker'[w].pc = "auditWrite"
         \/ worker[w].pc \in {"hide", "reviewLookup"} /\ worker'[w].pc \in {"reviewLookup", "reviewWrite", "finish"}
  <2>1. CASE AuditLookup(w, ok)
    BY <1>2, <2>1 DEF AuditLookup, WorkerState, IndInv, TypeOK
  <2>3. CASE ReviewLookup(w, ok)
    BY <1>2, <2>3 DEF ReviewLookup, WorkerState, IndInv, TypeOK
  <2>2. CASE HideSource(w, ok)
    BY <1>2, <2>2, AfterHidePcs DEF HideSource, Step, WorkerState, IndInv, TypeOK
  <2> QED
    BY <2>1, <2>2, <2>3
<1> QED
  BY <1>1, <1>3, PlainWork DEF AuditedPcs

LEMMA AuditWriteCalm ==
  ASSUME IndInv, JobsOK, RowsOK, StaffOK, NEW w \in Workers, AuditWrite(w, TRUE)
  PROVE  JobsOK' /\ RowsOK' /\ StaffOK'
<1>1. UNCHANGED <<posted, job, sweepFound, review, disagreements, staff>> /\ worker[w].pc = "auditWrite"
  BY DEF AuditWrite, Step, queueVars
<1>2. PICK c \in Content : c = worker[w].item
  BY <1>1 DEF IndInv, BusyInv
<1>3. worker[w] \in WorkerState
  BY DEF IndInv, TypeOK
<1>4. /\ \A x \in Workers : x # w => worker'[x] = worker[x]
      /\ worker'[w].item = c /\ worker'[w].pc \in {"hide", "reviewLookup", "finish"}
  BY <1>2, <1>3, AfterHidePcs DEF AuditWrite, Step, WorkerState, IndInv, TypeOK
<1>5. /\ \A d \in Content : d # c => audit'[d] = audit[d]
      /\ audit'[c].row
  <2>1. CASE worker[w].found \/ ~audit[c].row
    BY <1>2, <2>1 DEF AuditWrite, Audit, IndInv, TypeOK
  <2>2. CASE ~(worker[w].found \/ ~audit[c].row)
    BY <1>2, <2>2 DEF AuditWrite
  <2> QED
    BY <2>1, <2>2
<1>6. ~review[c].row
  BY <1>1, <1>2 DEF RowsOK
<1>7. JobsOK'
  BY <1>1, <1>2, <1>4, JobGoesOn
<1>8. RowsOK'
  <2>1. \A x \in Workers : worker[x].pc # "idle" => worker[x].item \in Content
    BY DEF IndInv, BusyInv
  <2>2. ASSUME NEW x \in Workers
        PROVE  /\ worker'[x].pc \notin {"idle", "finish"} => ~review[worker'[x].item].row
               /\ worker'[x].pc \in AuditedPcs => audit'[worker'[x].item].row
    <3>1. CASE x = w
      BY <1>4, <1>5, <1>6, <3>1
    <3>2. CASE x # w
      BY <1>4, <1>5, <2>1, <3>2 DEF RowsOK, AuditedPcs
    <3> QED
      BY <3>1, <3>2
  <2> QED
    BY <1>1, <1>5, <2>2 DEF RowsOK
<1>9. StaffOK'
  BY <1>1, <1>5, <1>6 DEF StaffOK, ReversedOK
<1> QED
  BY <1>7, <1>8, <1>9

LEMMA ReviewWriteCalm ==
  ASSUME IndInv, JobsOK, RowsOK, StaffOK, NEW w \in Workers, ReviewWrite(w, TRUE)
  PROVE  JobsOK' /\ RowsOK' /\ StaffOK'
<1>1. UNCHANGED <<posted, job, sweepFound, audit, disagreements, staff>> /\ worker[w].pc = "reviewWrite"
  BY DEF ReviewWrite, Step, queueVars
<1>2. PICK c \in Content : c = worker[w].item
  BY <1>1 DEF IndInv, BusyInv
<1>3. worker[w] \in WorkerState
  BY DEF IndInv, TypeOK
<1>4. /\ \A x \in Workers : x # w => worker'[x] = worker[x]
      /\ worker'[w].item = c /\ worker'[w].pc = "finish"
  BY <1>2, <1>3 DEF ReviewWrite, Step, WorkerState, IndInv, TypeOK
<1>5. ~review[c].row /\ audit[c].row /\ job[c].state = "active"
  BY <1>1, <1>2 DEF RowsOK, JobsOK, AuditedPcs
<1>6. /\ \A d \in Content : d # c => review'[d] = review[d]
      /\ review'[c].row /\ review'[c].resolution = "none"
  BY <1>2, <1>5 DEF ReviewWrite, PendingRow, IndInv, TypeOK
<1>7. JobsOK'
  BY <1>1, <1>2, <1>4, JobGoesOn
<1>8. RowsOK'
  <2>1. \A x \in Workers : x # w /\ worker[x].pc # "idle" => worker[x].item \in Content /\ worker[x].item # c
    BY <1>1, <1>2, OneWorker DEF IndInv, BusyInv
  <2>2. ASSUME NEW x \in Workers
        PROVE  /\ worker'[x].pc \notin {"idle", "finish"} => ~review'[worker'[x].item].row
               /\ worker'[x].pc \in AuditedPcs => audit[worker'[x].item].row
    <3>1. CASE x = w
      BY <1>4, <1>5, <3>1
    <3>2. CASE x # w
      BY <1>4, <1>6, <2>1, <3>2 DEF RowsOK, AuditedPcs
    <3> QED
      BY <3>1, <3>2
  <2>3. \A d \in Content : /\ job[d].state \in {"none", "waiting"} => ~review'[d].row
                           /\ review'[d].row => audit[d].row
    BY <1>5, <1>6 DEF RowsOK
  <2> QED
    BY <1>1, <2>2, <2>3 DEF RowsOK
<1>9. StaffOK'
  <2>1. \A d \in Content : ReversedOK(d)'
    BY <1>1, <1>6 DEF StaffOK, ReversedOK
  <2>2. \A s \in Staff : staff[s].pc \in Resolving => review'[staff[s].item].row
    <3>1. \A s \in Staff : staff[s].pc # "idle" => staff[s].item \in Content
      BY DEF IndInv, BusyInv
    <3> QED
      BY <1>6, <3>1 DEF StaffOK, Resolving
  <2> QED
    BY <1>1, <2>1, <2>2 DEF StaffOK
<1> QED
  BY <1>7, <1>8, <1>9

LEMMA WorkersCalm ==
  ASSUME IndInv, JobsOK, RowsOK, StaffOK, Calm', NEW w \in Workers,
         (\E c \in Content : Fetch(w, c)) \/ WorkerStep(w) \/ CrashWorker(w)
  PROVE  JobsOK' /\ RowsOK' /\ StaffOK'
<1>1. ASSUME NEW ok \in BOOLEAN,
             \/ AuditLookup(w, ok) \/ AuditWrite(w, ok) \/ HideSource(w, ok)
             \/ ReviewLookup(w, ok) \/ ReviewWrite(w, ok)
      PROVE  JobsOK' /\ RowsOK' /\ StaffOK'
  <2>1. CASE AuditLookup(w, ok) \/ ReviewLookup(w, ok) \/ HideSource(w, ok)
    BY <2>1, LookupCalm
  <2>2. CASE AuditWrite(w, ok) \/ ReviewWrite(w, ok)
    <3>1. ok
      <4>1. Statement(ok)
        BY <2>2 DEF AuditWrite, ReviewWrite
      <4> QED
        BY <4>1, CalmGoesWell
    <3>2. ok = TRUE
      BY <3>1
    <3> QED
      BY <2>2, <3>2, AuditWriteCalm, ReviewWriteCalm
  <2> QED
    BY <1>1, <2>1, <2>2
<1>2. CASE CrashWorker(w)
  BY <1>2, NothingCrashes DEF CrashWorker
<1> QED
  BY <1>1, <1>2, FetchCalm, JudgeCalm, FinishCalm DEF WorkerStep

----------------------------------------------------------------------------
(* Moderators                                                              *)

LEMMA StaffLeavesJobs ==
  ASSUME NEW s \in Staff,
         \/ \E c \in Content, act \in ReviewActs : ResolveRead(s, c, act)
         \/ \E c \in Content, act \in AdminActs, ok \in BOOLEAN : AdminLookup(s, c, act, ok)
         \/ StaffStep(s)
  PROVE  UNCHANGED <<posted, job, sweepFound, worker>>
BY DEF ResolveRead, AdminLookup, StaffStep, ResolveQueue, ResolveSource, ResolveAudit, ResolveLog,
       AdminUpsert, AdminSource, dbVars, queueVars

(* A call that begins, and one that is not about a review.                 *)
LEMMA NoReversal ==
  ASSUME StaffOK, NEW s \in Staff, UNCHANGED <<review, disagreements>>,
         \A c \in Content : audit'[c] = audit[c] \/ audit'[c].moderated_by = "human",
         \A x \in Staff : x # s => staff'[x] = staff[x],
         staff[s].pc \notin {"resolveSource", "resolveAudit", "resolveLog"},
         staff'[s].pc \in Resolving => review[staff'[s].item].row
  PROVE  StaffOK'
<1>1. ASSUME NEW c \in Content PROVE ReversedOK(c)'
  <2>1. ASSUME NEW pcs \in SUBSET {"resolveSource", "resolveAudit", "resolveLog"}, NEW x \in Staff,
               Reverses(staff[x], c, pcs)
        PROVE  Reverses(staff'[x], c, pcs)
    BY <2>1 DEF Reverses
  <2>2. /\ {"resolveSource", "resolveAudit", "resolveLog"} \in SUBSET {"resolveSource", "resolveAudit", "resolveLog"}
        /\ {"resolveSource", "resolveAudit"} \in SUBSET {"resolveSource", "resolveAudit", "resolveLog"}
    OBVIOUS
  <2>3. ReversedOK(c)
    BY DEF StaffOK
  <2>4. audit[c].moderated_by = "human" => audit'[c].moderated_by = "human"
    OBVIOUS
  <2>5. (\E x \in Staff : Reverses(staff[x], c, {"resolveSource", "resolveAudit", "resolveLog"}))
          => \E x \in Staff : Reverses(staff'[x], c, {"resolveSource", "resolveAudit", "resolveLog"})
    BY <2>1, <2>2
  <2>6. (\E x \in Staff : Reverses(staff[x], c, {"resolveSource", "resolveAudit"}))
          => \E x \in Staff : Reverses(staff'[x], c, {"resolveSource", "resolveAudit"})
    BY <2>1, <2>2
  <2> QED
    BY <2>3, <2>4, <2>5, <2>6 DEF ReversedOK
<1>2. \A x \in Staff : staff'[x].pc \in Resolving => review[staff'[x].item].row
  BY DEF StaffOK
<1> QED
  BY <1>1, <1>2 DEF StaffOK

LEMMA StaffBeginsCalm ==
  ASSUME IndInv, JobsOK, RowsOK, StaffOK, NEW s \in Staff,
         \/ \E c \in Content, act \in ReviewActs : ResolveRead(s, c, act)
         \/ \E c \in Content, act \in AdminActs, ok \in BOOLEAN : AdminLookup(s, c, act, ok)
  PROVE  JobsOK' /\ RowsOK' /\ StaffOK'
<1>1. UNCHANGED <<review, audit, disagreements>> /\ staff[s].pc = "idle"
  BY DEF ResolveRead, AdminLookup, dbVars
<1>2. /\ \A x \in Staff : x # s => staff'[x] = staff[x]
      /\ staff'[s].pc \in Resolving => review[staff'[s].item].row
  <2>1. ASSUME NEW c \in Content, NEW act \in ReviewActs, ResolveRead(s, c, act)
        PROVE  /\ \A x \in Staff : x # s => staff'[x] = staff[x]
               /\ review[staff'[s].item].row
    BY <2>1 DEF ResolveRead, IdleStaff, IndInv, TypeOK
  <2>2. ASSUME NEW c \in Content, NEW act \in AdminActs, NEW ok \in BOOLEAN, AdminLookup(s, c, act, ok)
        PROVE  /\ \A x \in Staff : x # s => staff'[x] = staff[x]
               /\ staff'[s].pc = "upsert"
    BY <2>2 DEF AdminLookup, IndInv, TypeOK
  <2> QED
    BY <2>1, <2>2 DEF Resolving
<1>3. StaffOK'
  BY <1>1, <1>2, NoReversal
<1> QED
  BY <1>1, <1>3, StaffLeavesJobs, JobsSame, RowsStay

LEMMA AdminCalm ==
  ASSUME IndInv, JobsOK, RowsOK, StaffOK, NEW s \in Staff, NEW ok \in BOOLEAN,
         AdminUpsert(s, ok) \/ AdminSource(s, ok)
  PROVE  JobsOK' /\ RowsOK' /\ StaffOK'
<1>1. PICK pc \in {"upsert", "source"}, next \in {"source", "idle"} : StaffMoves(s, pc, next)
  BY DEF AdminUpsert, AdminSource
<1>2. /\ \A x \in Staff : x # s => staff'[x] = staff[x]
      /\ staff[s].pc \in {"upsert", "source"} /\ staff'[s].pc \in {"source", "idle"}
  BY <1>1, StaffMovesOn
<1>3. UNCHANGED <<review, disagreements>>
  BY DEF AdminUpsert, AdminSource
<1>4. \A c \in Content : audit'[c] = audit[c] \/ (audit'[c].row /\ audit'[c].moderated_by = "human")
  BY DEF AdminUpsert, AdminSource, Audit, IndInv, TypeOK
<1>5. StaffOK'
  BY <1>2, <1>3, <1>4, NoReversal DEF Resolving
<1>6. UNCHANGED <<posted, job, sweepFound, worker>>
  BY StaffLeavesJobs DEF StaffStep
<1> QED
  BY <1>3, <1>4, <1>5, <1>6, JobsSame, RowsStay

LEMMA ResolveQueueCalm ==
  ASSUME IndInv, JobsOK, RowsOK, StaffOK, NEW s \in Staff, ResolveQueue(s, TRUE)
  PROVE  JobsOK' /\ RowsOK' /\ StaffOK'
<1>1. PICK next \in {"resolveAudit", "resolveSource"} :
        /\ StaffMoves(s, "resolveQueue", next)
        /\ next = "resolveAudit" => staff[s].act = "confirm"
  BY DEF ResolveQueue
<1>2. /\ \A x \in Staff : x # s => staff'[x] = staff[x]
      /\ staff[s].pc = "resolveQueue" /\ staff'[s].pc = next
      /\ staff'[s].item = staff[s].item /\ staff'[s].act = staff[s].act
  BY <1>1, StaffMovesOn
<1>3. PICK c \in Content : c = staff[s].item
  BY <1>2 DEF IndInv, BusyInv
<1>4. UNCHANGED <<audit, disagreements>> /\ review[c].row
  BY <1>2, <1>3 DEF ResolveQueue, StaffOK, Resolving
<1>5. /\ \A d \in Content : d # c => review'[d] = review[d]
      /\ review'[c].row /\ review'[c].resolution = staff[s].act
  <2>1. review[c] \in ReviewRow
    BY <1>4 DEF IndInv, TypeOK, NoRow
  <2>2. review' = [review EXCEPT ![c] = [@ EXCEPT !.status = "resolved", !.resolution = staff[s].act]]
    BY <1>3 DEF ResolveQueue
  <2> QED
    BY <2>1, <2>2 DEF ReviewRow, IndInv, TypeOK
<1>6. ASSUME NEW d \in Content PROVE ReversedOK(d)'
  <2>1. CASE d = c
    <3>1. CASE staff[s].act = "reverse"
      <4>1. staff'[s].pc = "resolveSource"
        BY <1>1, <1>2, <3>1
      <4>2. /\ Reverses(staff'[s], d, {"resolveSource", "resolveAudit", "resolveLog"})
            /\ Reverses(staff'[s], d, {"resolveSource", "resolveAudit"})
        BY <1>2, <1>3, <2>1, <3>1, <4>1 DEF Reverses
      <4> QED
        BY <4>2 DEF ReversedOK
    <3>2. CASE staff[s].act # "reverse"
      BY <1>5, <2>1, <3>2 DEF ReversedOK
    <3> QED
      BY <3>1, <3>2
  <2>2. CASE d # c
    <3>1. ReversedOK(d) /\ review'[d] = review[d]
      BY <1>5, <2>2 DEF StaffOK
    <3>2. \A x \in Staff, pcs \in {{"resolveSource", "resolveAudit", "resolveLog"}, {"resolveSource", "resolveAudit"}} :
            Reverses(staff[x], d, pcs) => Reverses(staff'[x], d, pcs)
      BY <1>2, <1>3, <2>2 DEF Reverses
    <3> QED
      BY <1>4, <3>1, <3>2 DEF ReversedOK
  <2> QED
    BY <2>1, <2>2
<1>7. \A x \in Staff : staff'[x].pc \in Resolving => review'[staff'[x].item].row
  <2>1. \A x \in Staff : staff[x].pc \in Resolving => staff[x].item \in Content /\ review[staff[x].item].row
    BY DEF StaffOK, Resolving, IndInv, BusyInv
  <2> QED
    BY <1>2, <1>3, <1>5, <2>1
<1>8. StaffOK'
  BY <1>6, <1>7 DEF StaffOK
<1>9. UNCHANGED <<posted, job, sweepFound, worker>>
  BY StaffLeavesJobs DEF StaffStep
<1>10. \A d \in Content : review'[d].row <=> review[d].row
  BY <1>4, <1>5
<1> QED
  BY <1>4, <1>8, <1>9, <1>10, JobsSame, RowsStay

(* The rest of a review: the source, the audit row, the log.               *)
LEMMA ResolveOnCalm ==
  ASSUME IndInv, JobsOK, RowsOK, StaffOK, NEW s \in Staff,
         ResolveSource(s, TRUE) \/ ResolveAudit(s, TRUE) \/ ResolveLog(s, TRUE)
  PROVE  JobsOK' /\ RowsOK' /\ StaffOK'
<1>1. PICK pc \in {"resolveSource", "resolveAudit", "resolveLog"}, next \in {"resolveAudit", "resolveLog", "idle"} :
        /\ StaffMoves(s, pc, next)
        /\ pc = "resolveSource" => next = "resolveAudit" /\ UNCHANGED <<audit, disagreements>>
        /\ pc = "resolveAudit" => /\ UNCHANGED disagreements
                                  /\ staff[s].act = "reverse" => next = "resolveLog"
                                  /\ \E status : audit' = IF audit[staff[s].item].row
                                                          THEN [audit EXCEPT ![staff[s].item] = Audit(status, "human")]
                                                          ELSE audit
        /\ pc = "resolveLog" => disagreements' = disagreements \cup {staff[s].item} /\ UNCHANGED audit
  <2>1. CASE ResolveSource(s, TRUE)
    BY <2>1 DEF ResolveSource
  <2>2. CASE ResolveAudit(s, TRUE)
    BY <2>2 DEF ResolveAudit
  <2>3. CASE ResolveLog(s, TRUE)
    BY <2>3 DEF ResolveLog
  <2> QED
    BY <2>1, <2>2, <2>3
<1>2. /\ \A x \in Staff : x # s => staff'[x] = staff[x]
      /\ staff[s].pc = pc
      /\ next = "idle" => staff'[s].pc = "idle"
      /\ next # "idle" => staff'[s].pc = next /\ staff'[s].item = staff[s].item /\ staff'[s].act = staff[s].act
  BY <1>1, StaffMovesOn
<1>3. PICK c \in Content : c = staff[s].item
  BY <1>2 DEF IndInv, BusyInv
<1>4. UNCHANGED review /\ review[c].row /\ audit[c].row
  <2>1. UNCHANGED review
    BY DEF ResolveSource, ResolveAudit, ResolveLog
  <2>2. review[c].row
    BY <1>2, <1>3 DEF StaffOK, Resolving
  <2> QED
    BY <2>1, <2>2 DEF RowsOK
<1>5. /\ \A d \in Content : audit'[d] = audit[d] \/ (audit'[d].row /\ audit'[d].moderated_by = "human")
      /\ pc = "resolveAudit" => audit'[c].moderated_by = "human"
  <2>1. CASE pc = "resolveAudit"
    <3>1. PICK status : audit' = [audit EXCEPT ![c] = Audit(status, "human")]
      BY <1>1, <1>3, <1>4, <2>1
    <3> QED
      BY <3>1 DEF Audit, IndInv, TypeOK
  <2>2. CASE pc # "resolveAudit"
    BY <1>1, <2>2
  <2> QED
    BY <2>1, <2>2
<1>6. disagreements \subseteq disagreements' /\ (pc = "resolveLog" => c \in disagreements')
  BY <1>1, <1>3
<1>7. ASSUME NEW d \in Content PROVE ReversedOK(d)'
  <2>1. ReversedOK(d)
    BY DEF StaffOK
  <2>2. ASSUME NEW x \in Staff, Reverses(staff[x], d, {"resolveSource", "resolveAudit", "resolveLog"})
        PROVE  d \in disagreements' \/ Reverses(staff'[x], d, {"resolveSource", "resolveAudit", "resolveLog"})
    <3>1. CASE x # s
      BY <1>2, <2>2, <3>1
    <3>2. CASE x = s
      BY <1>1, <1>2, <1>3, <1>6, <2>2, <3>2 DEF Reverses
    <3> QED
      BY <3>1, <3>2
  <2>3. ASSUME NEW x \in Staff, Reverses(staff[x], d, {"resolveSource", "resolveAudit"})
        PROVE  audit'[d].moderated_by = "human" \/ Reverses(staff'[x], d, {"resolveSource", "resolveAudit"})
    <3>1. CASE x # s
      BY <1>2, <2>3, <3>1
    <3>2. CASE x = s
      BY <1>1, <1>2, <1>3, <1>5, <2>3, <3>2 DEF Reverses
    <3> QED
      BY <3>1, <3>2
  <2> QED
    BY <1>4, <1>5, <1>6, <2>1, <2>2, <2>3 DEF ReversedOK
<1>8. \A x \in Staff : staff'[x].pc \in Resolving => review'[staff'[x].item].row
  BY <1>2, <1>3, <1>4 DEF StaffOK, Resolving
<1>9. StaffOK'
  BY <1>7, <1>8 DEF StaffOK
<1>10. UNCHANGED <<posted, job, sweepFound, worker>>
  BY StaffLeavesJobs DEF StaffStep
<1> QED
  BY <1>4, <1>5, <1>9, <1>10, JobsSame, RowsStay

LEMMA StaffCalm ==
  ASSUME IndInv, JobsOK, RowsOK, StaffOK, Calm', NEW s \in Staff,
         \/ \E c \in Content, act \in ReviewActs : ResolveRead(s, c, act)
         \/ \E c \in Content, act \in AdminActs, ok \in BOOLEAN : AdminLookup(s, c, act, ok)
         \/ StaffStep(s)
         \/ CrashStaff(s)
  PROVE  JobsOK' /\ RowsOK' /\ StaffOK'
<1>1. ASSUME NEW ok \in BOOLEAN,
             ResolveQueue(s, ok) \/ ResolveSource(s, ok) \/ ResolveAudit(s, ok) \/ ResolveLog(s, ok)
      PROVE  JobsOK' /\ RowsOK' /\ StaffOK'
  <2>1. Statement(ok)
    BY <1>1 DEF ResolveQueue, ResolveSource, ResolveAudit, ResolveLog
  <2>2. ok = TRUE
    BY <2>1, CalmGoesWell
  <2> QED
    BY <1>1, <2>2, ResolveQueueCalm, ResolveOnCalm
<1>2. CASE CrashStaff(s)
  BY <1>2, NothingCrashes DEF CrashStaff
<1> QED
  BY <1>1, <1>2, StaffBeginsCalm, AdminCalm DEF StaffStep

LEMMA ReportersCalm ==
  ASSUME IndInv, JobsOK, RowsOK, StaffOK, NEW r \in Reporters,
         (\E c \in Content : FlagInsert(r, c)) \/ ReporterStep(r) \/ CrashReporter(r)
  PROVE  JobsOK' /\ RowsOK' /\ StaffOK'
<1>1. UNCHANGED <<posted, job, sweepFound, worker, review, audit, disagreements, staff>>
  BY DEF FlagInsert, ReporterStep, FlagCount, FlagHide, CrashReporter, dbVars, queueVars
<1> QED
  BY <1>1, JobsSame, RowsStay, StaffSame

LEMMA CalmNext == IndInv /\ CalmInv /\ [Next]_vars => CalmInv'
<1> SUFFICES ASSUME IndInv, CalmInv, [Next]_vars, Calm' PROVE JobsOK' /\ RowsOK' /\ StaffOK'
  BY DEF CalmInv
<1>1. JobsOK /\ RowsOK /\ StaffOK
  BY BudgetMoves, CalmStays DEF CalmInv
<1>2. CASE UNCHANGED vars
  <2>1. UNCHANGED <<posted, job, sweepFound, worker, review, audit, disagreements, staff>>
    BY <1>2 DEF vars, dbVars, queueVars, actors
  <2> QED
    BY <1>1, <2>1, JobsSame, RowsStay, StaffSame
<1>3. ASSUME NEW c \in Content,
             \/ \E enqueued \in BOOLEAN : Post(c, enqueued)
             \/ Stall(c) \/ Purge(c)
             \/ \E ok \in BOOLEAN : SweepAdd(c, ok)
      PROVE  JobsOK' /\ RowsOK' /\ StaffOK'
  BY <1>1, <1>3, PostCalm, NothingStalls, SweepCalm
<1>4. CASE SweepQuery \/ CrashSweep
  BY <1>1, <1>4, SweepCalm, NothingCrashes DEF CrashSweep
<1> QED
  BY <1>1, <1>2, <1>3, <1>4, WorkersCalm, StaffCalm, ReportersCalm DEF Next

LEMMA CalmInit == Init => CalmInv
<1> SUFFICES ASSUME Init PROVE CalmInv
  OBVIOUS
<1>1. JobsOK
  BY DEF Init, JobsOK, NoJob, IdleWorker
<1>2. RowsOK
  BY DEF Init, RowsOK, NoRow, IdleWorker, AuditedPcs
<1>3. StaffOK
  BY DEF Init, StaffOK, ReversedOK, NoRow, IdleStaff, Resolving
<1> QED
  BY <1>1, <1>2, <1>3 DEF CalmInv

(* A review closed as reversed is on record as a human's decision, and the *)
(* disagreement with the model is kept: up to the first failure, crash,    *)
(* second delivery or job dropped from the history, however moderators,    *)
(* administrators and the workers of other items interleave.               *)
THEOREM ReversalsAreRecorded == Spec => [](Calm => ReversalIsComplete)
<1>1. Spec => []CalmInv
  BY CalmInit, CalmNext, Invariance, PTL DEF Spec
<1>2. CalmInv => (Calm => ReversalIsComplete)
  <2> SUFFICES ASSUME CalmInv, Calm, NEW c \in Content, Quiet(c), review[c].row,
                      review[c].resolution = "reverse"
               PROVE  c \in disagreements /\ audit[c].row /\ audit[c].moderated_by = "human"
    BY DEF ReversalIsComplete
  <2> QED
    BY DEF CalmInv, RowsOK, StaffOK, ReversedOK, Reverses, Quiet
<1> QED
  BY <1>1, <1>2, PTL

============================================================================
