# AffinityEcho backend: a TLA+ verification project

AffinityEcho is a community for professionals who post under pseudonyms: feeds,
forums, short-lived "nooks", mentorship, referrals, private messages and an AI
coach. The backend is a NestJS application on PostgreSQL (through a small query
builder), Redis and BullMQ. This directory holds TLA+ models of the parts of it
whose correctness depends on the order in which things happen, the TLC runs that
check them and TLAPS proofs of their main invariants. Paths below are relative to
the repository; the application code is under `src/`.

- [How the code behaves](#how-the-code-behaves)
- [Inventory](#inventory)
- [Modules](#modules)
- [Runs](#runs)
- [Proofs](#proofs)
- [Findings](#findings)
- [Observations](#observations)
- [Not modelled](#not-modelled)

## How the code behaves

Four facts about the code shape every model.

1. **One statement per step.** The query builder (`src/database/query-builder.ts`)
   sends each query on its own; apart from one method of the coach's repository
   there are no transactions. Between two `await`s of a handler any other handler
   may run. So an action is one statement, and a handler is a process that
   remembers what it read.
2. **Errors are values.** `QueryBuilder.execute` (378-408) returns
   `{ data: null, error }` and does not throw. Many callers look only at `data`, so
   an error reads as "no row" and a failed write as success. Reads and writes that
   may fail are nondeterministic in the models, and a caller that ignores the
   error goes on.
3. **Checks are not repeated.** A handler reads a row, checks its status and
   updates it by id. Only unique indexes and foreign keys are enforced by the
   database.
4. **Anything may stop.** A process may die after any statement. BullMQ then
   delivers the job again; an HTTP call is simply lost.

## Inventory

| Component | State | Operations | Hard part | What makes it correct |
|---|---|---|---|---|
| Editorial decision (`editorial.service.ts`, `enforcement.service.ts`) | none (rollout mode) | parse a reply, decide | a five-way nest of conditions, malformed replies | total; monotone in rollout and confidence; a crisis reaches a human |
| Content moderation (`editorial.processor.ts`, `moderation-sweep.jobs.ts`, `content-safety.service.ts`, `moderation-review.service.ts`, `admin-moderation.service.ts`) | audit, review queue, flags, `is_hidden`, the queue | post, judge, hide, queue, sweep, flag, resolve, hide/restore/delete | redelivery, crashes, four kinds of writers | hidden only on grounds; hidden by AI is reviewable and can be reversed; everything posted is moderated |
| Identity reveal (both `identity-reveal.service.ts`, `identity-reveal.util.ts`), conversations, connections | reveals, flags of conversations and connections | ask, answer, cancel, open, connect | two services, one table, three places of disclosure | no name without consent; consent reaches every conversation |
| Mentorship (`mentorship-requests`, `-relationships`, `-sessions.service.ts`, `mentorship-chat.service.ts`) | requests, relationships, sessions and their counters | request, respond, withdraw, accept, complete, cancel, schedule | two users drive three tables | nobody paired unasked; an accepted request has its relationship; a count never leads |
| Coaching (`coach-session.service.ts`, `coach-repository.service.ts`, `grow.machine.ts`, `coach-safety.service.ts`) | sessions, messages, safety events, tickets | start, turn, end, summarise | turns overlap around a slow call | one stage at a time; a crisis is logged and reaches the team |
| Coach's rulebook (`coach-learning.service.ts`) | lessons, sets of rules | distil, consolidate, read | a transaction at READ COMMITTED overlaps another | never lost once published, never in parts |
| Okestra insights (`okestra.service.ts`, `insights.processor.ts`) | cache, lock, queue in Redis | get, generate, enqueue, invalidate | lock set without looking, late jobs | what is served as current covers what was counted |
| Accounts and one-time codes (`auth.service.ts`, `user-account.service.ts`) | profiles, codes in memory | sign up, verify, resend, reset, provider sign-in, erase | pauses between check and write, restart | a code works once; an address is confirmed on the ground of a code or a sign-in |
| Company badge (`company-verification.service.ts`, `unified-profile.service.ts`) | profile, links, used mailboxes | request, change, confirm, change company | two queries before one write | one badge for one mailbox |
| Nooks (`nooks`, `nook-members`, `nook-messages`, `nook-reactions.service.ts`, `nook-cron.jobs.ts`) | nooks, members, messages, counters | join, leave, write, delete, react, expire, lock | counters from stale reads; deletion of threads | counters agree with rows |
| Feed (`feed-posts`, `feed-engagement.service.ts`) | posts, likes, reactions, bookmarks, shares, comments | toggle, share, comment, delete | functions with fallbacks, six deletions | counters agree with rows; nothing left at archiving |
| Forum (`forum`, `topic`, `comment.service.ts`) | forums, members, topics, reactions, comments | join, post, react, comment, delete | fallbacks from reads at the start of a handler | counters agree with rows |
| Referral posts (`referral*.service.ts`) | one post, marks, comments | like, bookmark, comment, close, delete | counted apart, error dropped | counters never ahead |
| Harassment reports (`harassment-report`, `admin-reports.service.ts`) | report, timeline, notices | submit, update, assign | events decided by an old row | every status had is on the timeline |
| Messages (`messaging`, `conversations.service.ts`) | messages, times of hiding and clearing | send, hide, clear, reopen, delete, read | times computed before they are written | a new message brings the conversation back |
| Cache of feeds (`feeds.service.ts`, `redis.service.ts`, and all who drop it) | entries in Redis, rows, blocks, follows, what users have hidden | read, build, store, hide, remove, drop, block, unfollow | built and dropped side by side, Redis out of reach | what is gone leaves every feed |
| Notifications and digests, retention, profiles, administration, analytics, mentions, e-mail, encryption, query builder | | | | see [Not modelled](#not-modelled) |

Components interact in three ways. They call each other (mentorship and referrals open
conversations, whose reveal flag comes from the reveal services; every content
service enqueues moderation and invalidates insights); they share tables
(`identity_reveals` by two services, `is_hidden` by four, `nook_messages` and
`feed_comments` by content services and moderation); and they are told of each other
by notifications, from which nothing is decided. `PROJECT.json` has the sources of
each component, its status, and under `hazards` the lines at which each goes wrong
and the properties that are about it.

## Modules

```
Enforcement                     operators: parseVerdict, decide
  EditorialDecision             one reply through both      EditorialDecisionProofs
  EditorialModeration           worker, queue, sweep, ...   EditorialModerationProofs
    ContentVisibility           what moderation promises    MCEditorialModeration
IdentityReveal                  both reveal services, ...   IdentityRevealProofs
    MutualConsent               what identity reveal promises  MCIdentityReveal
Handlers                        a handler, a table
  Mentorship                                                MentorshipProofs, MCMentorship
  Coaching                                                  GuidanceProofs
    GrowArc                     what the coach promises
  Rulebook, InsightsCache                                   GuidanceProofs
  Accounts, CompanyBadge                                    AccountsProofs
MCGuidance                      Mentorship, Coaching, Rulebook, InsightsCache, Accounts,
                                CompanyBadge, EditorialDecision
  Reports, Chat, FeedCache, Referrals, Forums, Engagement   CommunityProofs
  Nooks                                                     NooksProofs
MCCommunity                     these seven
MCLiveness                      EditorialModeration, FeedCache
```

In all modules that extend `Handlers` a handler in progress is a record in a function
on `Calls` whose field `at` names the statement it waits for; its other fields are
what it has read. An action that starts a handler takes its first read and the
checks on it; each further action is one statement with what is decided on its
result; `...Abort` ends a handler at any point, which covers a statement that throws
and the death of the process.

### Enforcement and EditorialDecision

`ParseVerdict` and `Decide` are `EditorialService.parseVerdict` and
`EnforcementService.decide` with their private handlers, one operator each.
Confidence is in percent; the thresholds are constants. A reply field may be
absent or of the wrong type. `EditorialDecision` walks each bounded reply through
both in every rollout mode.

### EditorialModeration

Variables are the tables (`posted`, `hidden`, `audit`, `review`, `flags`,
`disagreements`, `notices`), the BullMQ job of each item (`job`, keyed like
`jobId` in the code, with finished jobs retained), the state of each process, and
history variables (`judged`, `ordered`, `hiders`) that no guard reads.

| Code | Actions |
|---|---|
| `EditorialProcessor.process` | `Fetch`, `CheckOverrides`, `BuildFails`, `SkipShort`, `NotConfigured`, `Judge`, `JudgeFails`, `AuditLookup`, `AuditWrite`, `HideSource`, `ReviewLookup`, `ReviewWrite`, `Finish` |
| BullMQ | `Fetch`, `Stall` (the lock expires and the job is delivered again), `Purge` (a finished job leaves the history) |
| `ModerationSweepJobs` | `SweepQuery`, `SweepAdd` |
| `ContentSafetyService.flagContent` | `FlagInsert`, `FlagCount`, `FlagHide` |
| `ModerationReviewService.resolveItem` | `ResolveRead`, `ResolveQueue`, `ResolveSource`, `ResolveAudit`, `ResolveLog` |
| `AdminModerationService` | `AdminLookup`, `AdminUpsert`, `AdminSource` |
| the content services | `Post` |

The worker's enforcement is `Decide` of `Enforcement`. `ContentVisibility` is the
abstract specification: content, the grounds there are to hide it, and who is
restoring it.

### IdentityReveal

Variables are the three tables, the two counters of a referral post and what each
concurrent call remembers (`call`). `asked` and `agreed` are history variables.
Every `await` of a handler that reads or writes one of these tables is an action;
`Abort` ends a call anywhere, `Reported` lets a read come back empty.

| Code | Actions |
|---|---|
| messaging `requestReveal` | `AskInChat`, `FindPending`, `InsertReveal` |
| referral `requestReveal` | `AskOnConnection`, `FindExisting`, `InsertReveal` |
| `respondToReveal` | `AnswerInChat`, `WriteAnswer`, `FindConversations`, `FlagConversations` |
| `acceptReveal`, `rejectReveal` | `AnswerOnConnection`, `WriteAnswer`, `FlagConnection` |
| `cancelReveal` | `CancelAsk`, `WriteCancel` |
| `createConversation` | `OpenConversation`, `ReadRevealed`, `InsertConversation` |
| `startMentorshipChat` | `StartChat`, `FindChat`, `InsertConversation` |
| `sendConnectionRequest` | `SendRequest`, `InsertConnection`, `CountRequest` |
| `acceptConnection`, `rejectConnection` | `ReadRequest`, `WriteDecision`, `TakeSlot` |

A name is *shown* to a pair while one of their conversations or connections has
its flag set or `isRevealed` answers yes. `MutualConsent` is the abstract
specification: who asked, which other pairs a request named, who agreed, which pairs
are disclosed. A request made in a chat may name any connection (`ClientConnections`),
so a connection shows its parties on the consent of the two users of a request that
named it (`Vouched`), who need not be its parties; in every other place it is the
consent of the pair itself.

Abstractions: messages and notifications are left out; both reveal flags of a
conversation are one, being always written together; a pair has at most one
mentorship relationship to hang a chat on; blocks, message preferences and closed posts are refusals, that is, actions not taken; rows are never deleted
(cascades from deleting an account are not modelled).

### Mentorship

Variables are the direct requests, the relationships (rows with an id, at most one for
mentor and mentee in that order: the unique index), the sessions, and three histories:
who accepted what (`consented`), whose relationship an upsert failed to write or was
given to others (`lost`), and which columns a general update has written (`edited`). The
action `general` of `updateRelationshipDetails` takes any column of the client: the
parties, the status and the two counters are modelled, each in an update of its own, and
its effect on the other properties is what `lost` and `edited` say. Rewriting the primary
key by it, and the columns nothing reads back, are left out.

| Code | Actions |
|---|---|
| `sendDirectRequest` | `SendDirectRequest`, `InsertRequest` |
| `respondToDirectRequest`, `createMentorshipRelationship` | `RespondToDirectRequest`, `CreateMentorshipRelationship`, `WriteResponse` |
| `deleteDirectRequest` | `DeleteDirectRequest`, `RemoveRequest` |
| `getDirectRequest`, `markDirectRequestAsRead` | `ViewDirectRequest`, `GetDirectRequest`, `MarkDirectRequestAsRead` |
| `startMentorshipChat`, `scheduleSession` of the chat | `StartMentorshipChat`, `FindRelationship`, `OpenRelationship`, `ScheduleSession`, `InsertPlanned` |
| `mentorship-relationships.service.ts` | `UpdateRelationship`, `WriteRelationship`; the action `general`: `UpdateGenerally`, `WriteParties`, `WriteClientTotal`, `WriteClientCompleted` |
| `mentorship-sessions.service.ts` | `CreateSession`, `InsertSession`, `WriteTotal`, `CompleteSession`, `ReadCompleted`, `WriteCompleted`, `WriteCredit`, `ChangeSession`, `WriteSession` |

### Coaching and GrowArc

A session is its status, stage and goal; what the coach has said of it is the set of
stages its messages came from. The model and the safety classifier return any of
their results. `GrowArc` is the abstract specification, "It may never jump backwards
or skip ahead" of `grow.machine.ts`, as a counter per session that only advances by
one; the refinement maps it to the furthest stage spoken from. The stored stage
itself may fall back when turns overlap.

| Code | Actions |
|---|---|
| `startSession` | `StartSession`, `OpeningMessage`, `WriteOpeningStage` |
| `processTurn` | `ProcessTurn`, `Reactivate`, `Classify`, `CountClientTurns`, `ClientTurn`, `CoachTurn`, `SetSessionGoal`, `CoachMessage`, `UpdateSessionStage`, `AfterReply` |
| crisis branch | `CrisisTurn`, `LogSafetyEvent`, `Redirect`, `CompleteCrisis`, `NumberTicket`, `CreateSupportTicket`, `LogFlag` |
| `endSession`, `consolidateInBackground` | `EndSession`, `CompleteSessionRow`, `ReadTranscript`, `StoreSummary` |

### Rulebook, InsightsCache

`Rulebook` has the one transaction of the code, `replaceRulebook`: the update sees
what is committed when it runs, waits for rows another transaction has locked, and
a failure rolls back. `InsightsCache` counts content instead of keeping it: `text`
is the number of posts, `counted` how many the counters of the row show, and the
hash is a hash of these counters, as in `content-hash.service.ts`, or the empty one of
a row that could not be read. Insights are made of the oldest `ReadLimit` posts (100 in
the code), or of none when their query fails or the reply cannot be used: such ones are
stored and served like any others and are told apart by the field `whole`, which the
code does not keep. The lock is a key with a time to live that a request reads and later
sets without condition, and that anyone deletes; a `set` of Redis may be lost.

### Accounts, CompanyBadge

`Accounts` has the in-memory codes with their four ages (new, past the resend pause,
past the cooldown, expired), the profiles with the unique columns, and every way to
come by one: sign-up, Google, Apple. The id a provider knows a user by (`Subjects`) is
independent of the address, which the token carries or, for Apple, the client may name;
`proven` and `claimed` record which. `Restart` forgets the codes and every handler.
`CompanyBadge` follows a mailbox from the request to the badge; a mailbox is held by
the unique index on `verification_email_hash` and by `used_verification_emails`.

### Nooks, Engagement, Forums, Referrals, Reports, Chat

Each has tables, counters and, unlike the modules above, a history variable
(`nooksApart`, `postsApart`, `forumsExact`, `marksApart`, `eventsKept`, `sendsApart`)
that turns FALSE at the events the code is known not to survive: a counter written
from a value read before another handler of it came in, a handler that stopped half
way, a user who races himself. The modules say which.

Most of these handlers look at no error. The statements that fail unseen are steps of
their own, named `Miss...` (`MissRow`, `MissCount`, `MissAllComments`, `MissRows`,
`MissLook`; `MissMessages`, `MissMessagesCount`; `MissCounter`, `MissStatement`): the
handler goes on and writes what follows from having read or changed nothing. Where that
leaves a wrong counter, or rows without their nook, the code does not repair it, and the
history variable turns FALSE; where it does no harm (a walk through a thread cut short,
`Walks`; a reaction that is not inserted; the rows of a topic about to be marked deleted;
the look for a member) it stays as it is and the property still holds.

The property is about everything else, and there is much of it: handlers of different
users, threads with deleted parts, late replies, stored functions and fallbacks,
deletions that cascade. It does not show that the counters of the running system are
exact: it names the events that make them wrong and shows that without one of these they
are right, that is, what a repair would have to deal with and what it may leave alone.
What the code is exposed to is listed in [Observations](#observations).

### FeedCache

Variables are the rows as far as a feed tests them, what users have hidden, blocks,
follows, the entries of Redis (a set of items per viewer and filter) and whether
Redis is in reach. `unannounced` and `clearsApart` are histories: items unlisted by
one who drops no entry, and whether a clear ever met a feed being built or was lost.

| Code | Actions |
|---|---|
| `getAggregatedFeed` | `OpenFeed`, `ReadFollows`, `FetchItems`, `ReadBlocked`, `ReadBlockers`, `StoreFeed`, `DropHidden`, `AnswerFeed` |
| those who write and then drop all entries | `PostItem`, `HideItem`, `RestoreItem`, `RemoveItem`, then `ScanKeys`, `DeleteKeys` of `RedisService.delPattern` |
| those who write and drop none | `FlagHideItem`, `LockTopic`, `UpdateNook`, `NookExpires`, `HideContent`, `BlockUser` with `SeverFollows`, `UnblockUser`, `FollowUser`, `UnfollowUser` |
| Redis | `ExpireEntry`, `RedisConnection` |

## Runs

| Run | Instance | Question |
|---|---|---|
| `moderation_faults` | 1 item, worker, moderator, reporter; 1 fault, 1 crash | Is content ever hidden without grounds of its own? |
| `moderation_races` | 1 item, 2 workers, 1 moderator, 4 verdicts, 1 redelivery | Can a moderator get at what the AI hid, is a crisis cared for, is a reversal recorded; does the whole implement `ContentVisibility`? |
| `moderation_flags` | 2 items (one short), one posted per behaviour, 4 reporters, 1 worker without API key | Do three flags hide, however the counts interleave? |
| `moderation_liveness` | 2 items (one short), 2 workers, 1 crash; 1 nook, 1 viewer, 2 calls; fair | Is every posted item moderated in the end although its enqueue may be lost? Does what is gone leave every feed in the end? |
| `crash_loses_review` | 1 item, 1 worker, 1 crash | finding 1 |
| `sweep_reenqueues` | 1 item, 1 fault, 2 sweeps | finding 2 |
| `reveal_races` | 2 users, 2 calls, 2 reveals, 1 conversation, 1 connection | Does an acceptance reach the conversations, whatever races with it? |
| `reveal_faults` | 3 users, 2 calls, 1 reveal, 1 conversation, 1 connection; reads misread, calls end early | Is a name ever shown without consent, does every step keep the promise of `MutualConsent`, is a refused request ever counted? |
| `reveal_cancel_overwrites` | 2 users, 2 calls, 1 reveal | finding 3 |
| `mentorship_view` | 2 users, 1 request, 1 call, fair | finding 4 |
| `guidance` | seven components, 2 calls at a time | Is anybody paired unasked; does coaching keep to its arc, log and ticket every crisis; does the rulebook survive; do insights cover what was counted; does a code work once, is an address confirmed only on the ground of a code or a sign-in; is there one badge for a mailbox; is the matrix total, monotone and does it keep a human in the loop? |
| `community` | seven components, 2 calls at a time | Do the counters of nooks, posts and forums add up, are referral counters never ahead, is every status on the timeline, is a new message listed; does a feed leave out what its reader has hidden, is what was removed in no entry once the entries were dropped? |

**Combined runs.** `guidance`, `community` and `moderation_liveness` choose one component in the initial
state (`focus`); the others stay as they are. Their state spaces add up instead of
multiplying, and each property still sees every behaviour of its component. The
components that do interact through state (worker, sweep, flags and review; both
reveal services, conversations and connections; requests, relationships, sessions
and chats) are composed in one module each.

**Why the bounds are enough to be interesting.** One item suffices for the safety
of moderation, because no handler reads one item to write another; two are needed
for the sweep. Two workers with one stalled job give every overlap of a delivery
with its redelivery. Four reporters are one more than the threshold, which is what
a count that skips three needs. Two calls at a time give every overlap of two
handlers everywhere, including a handler with itself. In the reveals, two reveals
allow both directions and both services at once, and the third user is the one who
must not be able to answer for another. Three messages or comments are a thread with
a deleted part in the middle; three sets of rules are two replacements of a third;
three stages let a stage be skipped; three codes outlast two attempts. A feed is
looked at through one entry at a time, by one who builds it and one who changes what
is in it: entries do not depend on each other, and a clear drops them all.

`MaxFaults`, `MaxCrashes`, `MaxStalls`, `MaxPurges`, `LookbackSweeps`, `MaxCompleted`,
`MaxTurns`, `MaxLessons`, `MaxPosts`, `MaxCodes`, `MaxTime` and `RoomIn` (an insert
needs a free id) are bounds named where they are used. In the combined runs the
constraint `Few` (a state constraint: what it excludes is not followed any further)
thins the product of overlaps and rows, component by component: two calls overlap on
few rows, many rows are met by one call, and states that a property excuses are not
continued. Each part of `Few` says what it leaves out.

**Deadlock** is unchecked in all runs: users may stop posting, flagging and
asking, and each table is bounded.

**Symmetry** is used for ids of rows, for calls, for reporters and for users and
addresses that no action tells apart, in safety runs only. The one temporal property
checked with it, `ImplementsGrowArc`, has no liveness part, and neither the component
nor `GrowArc` distinguishes the permuted calls.

**Fairness.** `FairSpec` (`moderation_liveness`) is weak fairness of: a worker
fetching a waiting job and taking its next step (BullMQ workers run continuously);
the stalled-job check (a BullMQ timer); the sweep's query and enqueues (a
`@Cron`); and the remaining steps of a call in progress (Node runs continuations).
Nothing is assumed of users, failures or crashes. The sweep only looks back a
bounded time (`LookbackSweeps`), so items and sweeps are chosen such that an item is
seen while inside it. `FeedCacheFairness` (the feeds in `moderation_liveness`) is weak
fairness of the next step of a feed being answered, and of the expiry of each entry,
which Redis drops 120 s after it was stored; nobody is assumed to drop one.
`MentorshipFairSpec` (`mentorship_view`) is weak fairness of the
next statement of a handler in progress, and nothing else.

## Proofs

Every theorem is for any users, rows, and number of handlers in progress, each of
which may stop anywhere, and for any values of the bounds. The shape is the same
throughout: an inductive invariant of three parts (types; what each row stands for;
what a handler in progress may rely on although the tables have changed since it
read them), a lemma per action, and the properties as consequences.

| Module | Theorems | The strengthening, and why it is needed |
|---|---|---|
| `EditorialDecisionProofs` | `DecisionTypeCorrect`, `RolloutIsMonotonic`, `ConfidenceIsMonotonic`, `ReviewUnlessClear`, `CrisisIsHeard`, `GarbledNeverEnforced` | `IndInv`: the verdict is `ParseVerdict` of the reply and the result is `Decide` of the verdict. The work is a table of what `Decide` returns in each mode, for thresholds in any order. `GarbledNeverEnforced` needs `AutoHide > 50`: the default confidence of a reply without one is 50. |
| `EditorialModerationProofs` | `TypeCorrect`, `NoHidingWithoutGrounds`, `VisibilityRefinement`, `HidesAreReviewable`, `CrisesAreCaredFor`, `FlagsHide`, `ReversalsAreRecorded` | `GroundsInv`: a process about to hide was convinced some steps earlier, by a verdict, an order or a count, and those grounds still stand; `BusyInv`: it still works on the item it read. These two hold whatever goes wrong, and the refinement needs of them one fact per action. `CareInv`: while nothing has failed or died, the review, the safety message or the count that is still owed to an item is in the hands of a process. `CalmInv`: while moreover no job was delivered twice or dropped, a job is active exactly while one worker runs it, so an item has a review row only when no worker will write its rows again. `StateInv`, whatever goes wrong: a row says visible only where a run judged the item so or its call of the model failed. |
| `IdentityRevealProofs` | `TypeCorrect`, `ConsentCorrect`, `ConsentRefinement`, `AcceptanceReaches`, `RequestsCounted` | `RowsInv`: an accepted reveal, or the flag of a conversation, stands for the consent of its pair, the flag of a connection for that of a request which named it; `CallsInv`: rows never change parties, and consent once given is history. The refinement then needs one fact per action. `OwedInv`: what an acceptance still owes to conversations is within what its pair had then, and what its call found covers it. `CountInv`: every request counted, or about to be, has a connection of its own. |
| `MentorshipProofs` | `MentorshipTypeCorrect`, `NobodyPairedUnasked`, `AcceptanceIsBacked`, `CountNeverLeads` | `CallOK`: a handler about to open a relationship or to answer holds an acceptance that is on record, and one about to answer `accepted` has written the relationship; a counter about to be written is at most the sessions there are, which only grow. A row that a general update has written is let off; a pair that has a relationship keeps one or is `lost` (`Kept`). |
| `GuidanceProofs` | `CoachingTypeCorrect`, `StageNeverAheadOfTalk`, `RedirectsLeaveTrace`, `CrisisNeverForgotten`, `ArcRefinement`, `RulebookNeverLost`, `HitsCoverContent` | Coaching: `SessionOK`: the stages spoken from, with the first, are always `1..n`. A turn that resolved `n + 1` some time ago adds something already there or exactly the next. Rulebook: while no two replacements overlapped there is at most one transaction, and what it has retired is the whole book as it still is. Insights: whatever carries whole insights carries a hash at most as new as the posts they cover, or they were made of as many as are read; a call has read a hash at least as new as its beginning, or none. |
| `AccountsProofs` | `OneCodeOneConfirmation`, `ResendsKeepBudget`, `ConfirmedOnGround`, `OneMailboxOneBadge` | `AccountInv`: a code in memory has confirmed nothing and is at no other address; a handler that will confirm or link knows its address as proven, or as claimed with an Apple id at hand, and the row it found still has that address, or none because it was erased. `BadgeInv`: while no user has two handlers, every unopened link was mailed to the mailbox the profile names, and a handler that opens one has that mailbox; the unique index then does the rest. |
| `CommunityProofs` | `HiddenLeavesFeeds`, `ClearedFeedsStayFresh`, `TimelineIsComplete`, `SentMessageIsListed`, `CountsKeepBehind`, `ForumCountersExact`, `PostCountersExact` | `CacheInv`: an entry lists only what is on view, unless a handler in progress has yet to drop it for that item; what is being built lists only what is on view, since who takes an item from view meanwhile is an overlap on record; what a reader had hidden is still hidden. `ReportsInv`: a status that was moved to has its event, or a handler in progress owes it. `ChatInv`: while no two sends overlap, `last_message_at` is not older than any message sent, and a send holds a time between the insert of its message and now. `MarksInv`: a mark or comment about to be counted is a row of a user with no other handler, so an injection bounds what is still to be counted by the rows there are. `ForumInv`: a counter plus what the handlers on their way still owe it is the number of its rows, and a value a handler has read is still the counter's unless it met another handler of it or its read failed. `PostsInv`: the same for posts; each handler about to add to a counter speaks for a row of its own, so an injection bounds what is owed by the rows there are and the `GREATEST(0, ...)` of the functions never cuts, and one that writes from a value it read is alone with the counter. |
| `NooksProofs` | `NookCountersExact` | `NooksInv`: while handlers keep apart, a counter of a nook or of a message is right unless the one handler about it is between its row and its count, and that handler holds by how much; a reply is in the nook of what it answers, so a thread, being the least set closed under replies, is made of messages of its nook. |

Assumptions are those declared in the modules (`ConstantsAssumption`,
`ThresholdAssumption`, `NoneAssumption`, `StageAssumption`, ...): types of the constants
and thresholds, at least one stage, that the sets whose rows are counted are finite, and
that `None` is neither a row nor a handler in progress. TLC evaluates them in the runs.

`Untroubled` (no statement has failed, no process has died) and `Calm` (moreover no job
was delivered twice and none was dropped from the queue's history) are hypotheses about
the past of a run, not about the constants: the theorems speak of every run up to the
first such event, and findings 1 and 2 show what happens after it.

Only model-checked: `EveryPostModerated` and `FeedsCatchUp`, which are liveness and out
of the prover's reach.

## Findings

Runs that TLC must find violated.

1. **A crash loses the review.** `docs/EDITORIAL_AI_MODERATION.md:606` says the review
   row is inserted "in the same transaction". There is none: a worker that dies
   between hiding and `insertReviewQueue` leaves hidden content which the redelivered
   job skips as already actioned.
2. **The sweep's re-enqueue may do nothing.** A finished job keeps its `jobId` in the
   queue's history (`config/bull.config.ts`), so adding it again is ignored, while the
   sweep counts it as enqueued (`moderation-sweep.jobs.ts:15` says it re-enqueues).
3. **A cancellation overwrites an acceptance.** `cancelReveal` checks that the reveal is
   pending and then updates it by id; an answer recorded in between is lost although
   "Only pending requests can be cancelled"
   (`messaging/services/identity-reveal.service.ts:392`), and the conversations are
   revealed all the same.
4. **A request that is looked at never comes back.** `getDirectRequest` awaits
   `markDirectRequestAsRead` (`mentorship-requests.service.ts:827`), which awaits
   `getDirectRequest` (1157). A party who opens a request, or marks it as read, starts a
   recursion that ends only when the request is gone.

## Observations

Seen while modelling; no property excludes them.

- **Moderation.** A low-confidence remove of low severity leaves the content visible, a
  hide in `hide_enabled` is recorded as `pending_review`, content without API key is
  recorded as allowed with no review row; each differs from a table in
  `docs/EDITORIAL_AI_MODERATION.md` (463, 599, 621). A skip overwrites the audit row of
  actioned content with `allowed`, hides by flags leave no audit row to skip for, and
  the catch-all leaves `pending_review` with no queue row (263). `resolveItem` tests the
  `current_state` its review row was last written with
  (`moderation-review.service.ts:265-273`), which no hide or restore updates: of two runs
  of a job one may hide the item and the other, with a cry for help or a failed call,
  write the row as visible. `reverse` is refused then and only `restoreContent` undoes the
  hide; `AiHideIsReviewable` names that exception. A hiding threshold of 50 or less would enforce
  replies without a confidence.
- **Reveals.** `respondToReveal` never sets the flag of a connection, nor `acceptReveal`
  that of a conversation. The `connection_id` of a request made in a chat is stored as it
  comes, not compared with the pair, and `acceptReveal` flags the connection of its row:
  consent to such a request shows the two parties of the connection it names, whoever they
  are (`DisclosureNeedsConsent` says so). A mentorship chat is opened without looking at
  `isRevealed`; a conversation opened during an acceptance may stay anonymous: these err
  on the side of privacy. Two concurrent requests both pass the check for a
  pending one, and a second request after a rejection is refused only by the index.
  An acceptance of a connection with no slot left is not refused, and two acceptances
  of the same connection take two slots.
- **Mentorship.** A general update may name other users as mentor and mentee of a row, or
  any number as its counters (`mentorship-relationships.service.ts:297`): such a
  relationship rests on no acceptance, and the pair it had may open a new one.
- **Coaching.** A crisis of category THREAT leaves the session resumable; the background
  summary completes a session that was reopened meanwhile; a provisional goal can
  overwrite an agreed one; overlapping crises of one session may share a ticket
  reference, of which one is then lost.
- **Rulebook.** The comment at `coach-repository.service.ts:490` says "Atomically swap the
  active rulebook". Two overlapping consolidations leave both sets active, and a later
  one can retire a set it never read. Raw lessons are never retired.
- **Insights.** A waiter for the lock returns whatever is cached; a job that failed for
  good keeps its `jobId` among the last five failed, so later jobs of that content are
  dropped; anyone deletes the lock. When the posts cannot be read or the reply is of no
  use, what comes of it is stored under the hash of the full content
  (`okestra-llm.service.ts:161-174`, `259`, `312`) and served until that changes; only the
  100 oldest posts are read at all, so newer ones change the hash and not the insights.
  While a row cannot be read its insights are stored under the empty hash, which the next
  call takes for stale.
- **Accounts.** When Apple's token carries no address, the one the client names is taken
  (`auth.service.ts:516`): the account that has it is linked and marked confirmed, or a new
  one is confirmed at it. `email_verified` of Google's token is not looked at.
  `ConfirmationHasGround` says just this much. A look by provider id that fails goes on by
  address. After a race for a name the second insert lacks the password; a refused
  insert at provider sign-in still answers as if the row were there; `resetPassword`
  deletes whichever code the address has by then; `forgotPassword` stores under the
  lower-case address and clears under the address as typed.
- **Badge.** The older `updateProfile` and onboarding change the company and leave the
  badge; a crash after `recordUsed` leaves a mailbox used and no badge; `revoked_at` is
  never set.
- **Nooks.** `members_count` never counts the creator, and an administrator's
  `removeMember` leaves it; an administrator's `createNook` omits the non-null
  `expires_at`; a reply posted between the two deletions of `remove` is left without a
  nook, and so are all messages when the first deletion fails (`nooks.service.ts:405`);
  when `messages_count` cannot be read, zero is written over it
  (`nook-messages.service.ts:439-453`); the reaction `supportive` has no counter.
- **Feed.** Taking back a share nobody gave decrements the counter; deleting a comment on
  a topic or nook message subtracts from a counter that never counted it
  (`feed-engagement.service.ts:549-571`, `1216-1220`), so `forum_topics.comments_count`
  is wrong after a sequence of calls none of which failed or overlapped; a like whose
  insert or deletion fails is counted all the same (`59-77`, `666-673`); a counter that
  cannot be read starts again from one (`1180-1188`); a post is archived whatever its
  deletions left (`feed-posts.service.ts:479-518`); archived posts still take comments and
  likes.
- **Forum.** `20260217000002` sets `search_path = ''` in functions that name tables without
  schema, so the fallbacks are the normal path; `decrement_topic_count` does not exist,
  its error is no exception, and `topic_count` never falls; `topic.service.ts:556` calls
  the toggle race-condition-safe, but two overlapping removals both decrement, and a
  reaction whose insert fails is taken for one that was there; when `member_count` cannot
  be read, zero is written over it (`forum.service.ts:522-533`); comments whose deletion
  fails are uncounted all the same (`comment.service.ts:1030-1033`);
  `deleteTopic` clears `topic_bookmarks`, while bookmarks are in `feed_bookmarks`.
- **Referrals.** The same functions have no fallback there, so the counters stay at 0;
  taking back a like that was never given decrements; a comment deleted twice at once is
  subtracted twice.
- **Reports.** The newest event need not name the present status; `createReport` writes no
  event; the assignment event names who assigned, not who was assigned.
- **Chat.** An initial message does not touch `last_message_at`; reopening brings messages
  of before the deletion back; clearing hides the conversation and filters nothing; two
  overlapping sends can move `last_message_at` back; the list is filtered after it was
  paged; a failure after the insert makes the sender retry and post twice.
- **Feeds and lists.** `editorial.processor.ts:201` drops the entries "so hidden content
  disappears immediately"; a feed that is being built meanwhile brings it back until it
  expires. Hiding by flags, `lockTopic`, an administrator's `updateNook`, the expiry of a
  nook, blocks and unfollows drop no entry. `updateTopic` and `deleteTopic` drop
  `forum:*`, a pattern no key has (`topics:list:`, `topics:recent:`): a deleted topic stays
  in cached lists up to three minutes. An administrator's `deleteNook` sets `deleted_at`,
  which no list tests. The key `nooks:list:` has no user in it although what is cached was
  computed for one: it lacks his own nooks, and has the names revealed to him.
  `findTopicById` filters the comments neither by `is_hidden` nor by `is_deleted`, and
  compares a `user_id` it has not selected with the blocked users; `getUserBookmarks`
  still lists deleted and archived posts, and topic and nook lists those of blocked
  users.
- **Elsewhere.** `blockUser` (`user-blocking.service.ts`, near 77) deletes connections by a
  column `requester_id` that does not exist, and ignores the error; `followUser` never
  looks at blocks; the digest selects notifications without `id`, so none is marked
  delivered; the retention sweep names the table `topic_bookmarks`.

## Not modelled

- **Notifications, push, digests; analytics, mentions, e-mail.** Output: every component
  writes it and nothing is decided from it. The gateway forwards what was stored.
- **Retention sweep.** A nightly job of deletions on rows already out of sight.
- **Blocking and following**, beyond what a feed depends on. A block is an action the
  other components refuse.
- **Profiles, settings, most of administration.** Single-row reads and writes, listings
  and statistics; controllers with their routes and documentation are a large part of the
  source and have no state.
- **Ranking, discovery, search, temperature.** Arithmetic on real numbers, ages and text.
- **Caches of topic and nook lists.** An entry lives for its time to live, the code
  promises nothing about its age, and nothing is decided from it.
- **Encryption, avatars, logging; the query builder and the schema as such.** What they do
  to errors, single statements and unique rows is in every model.
