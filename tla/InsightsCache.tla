---------------------------- MODULE InsightsCache ----------------------------
(***************************************************************************)
(* The insights a language model writes about one topic or nook, kept in   *)
(* Redis under a hash of the content: OkestraService in front, a BullMQ    *)
(* job behind it, and a lock that both set without looking whether they    *)
(* got it.  Content is counted, not kept: text is the number of posts so   *)
(* far, counted how many of them the counters of the row show, and the     *)
(* hash is a hash of these counters.                                       *)
(***************************************************************************)
EXTENDS Handlers, Integers

CONSTANTS
  MaxPosts,     \* bound: posts
  ReadLimit,    \* how many posts are read at most, the oldest
  JobAttempts   \* attempts of a job

VARIABLES
  text,
  counted,
  entry,     \* the cache entry: None or [hash, text, whole]
  genLock,   \* is the generation lock set
  job,       \* the one job of the content: None or a record
  icalls     \* [Calls -> None or a call of getInsights]

insightVars == <<text, counted, entry, genLock, job, icalls>>

NoHash == -1    \* the empty hash, of a row that could not be read
Hashes == Nat \cup {NoHash}

(* What insights were made of: the posts read, all there were up to the    *)
(* limit unless the read failed or the reply could not be used.            *)
Insights == [hash : Hashes, text : Nat, whole : BOOLEAN]

InsightCall ==
  [at : {"readCache", "readHash", "miss", "hit", "stale", "generate", "store", "unlock", "fresh"},
   since : Nat, hash : Hashes, seen : Insights \cup {None}]

Job == [at : {"waiting", "lock", "generate", "store", "unlock", "failed"},
        hash : Hashes, text : Nat, whole : BOOLEAN, attempts : Int]

ASSUME InsightsAssumption ==
  JobAttempts \in Nat /\ ReadLimit \in Nat /\ None \notin Insights \cup InsightCall \cup Job

InsightsInit ==
  /\ text = 0
  /\ counted = 0
  /\ entry = None
  /\ genLock = FALSE
  /\ job = None
  /\ icalls = [c \in Calls |-> None]

(* The content hash of the row: its counters, not its messages; empty when *)
(* the row cannot be read.                                                 *)
ContentHash == {counted, NoHash}

(* A post inserts its row first and counts it by a later statement.        *)
PostContent == /\ text < MaxPosts
               /\ text' = text + 1
               /\ UNCHANGED <<counted, entry, genLock, job, icalls>>

CountContent == /\ counted < text
                /\ counted' = counted + 1
                /\ UNCHANGED <<text, entry, genLock, job, icalls>>

(* invalidateCache, which nobody waits for; also the TTL, and Redis lost.  *)
InvalidateCache == /\ entry # None
                   /\ entry' = None
                   /\ UNCHANGED <<text, counted, genLock, job, icalls>>

LockExpires == /\ genLock
               /\ genLock' = FALSE
               /\ UNCHANGED <<text, counted, entry, job, icalls>>

(* The entry is written, or Redis is down and set says nothing.            *)
Stores(new) == entry' \in {entry, new}
SetsLock(on) == genLock' \in {genLock, on}

----------------------------------------------------------------------------
(* getInsights: hash and cache are read together, so either may come first.*)
GetInsights(c) ==
  /\ icalls[c] = None
  /\ \/ \E hash \in ContentHash :
          icalls' = [icalls EXCEPT ![c] =
            [at |-> "readCache", since |-> counted, hash |-> hash, seen |-> None]]
     \/ \E seen \in {entry, None} :
          icalls' = [icalls EXCEPT ![c] =
            [at |-> "readHash", since |-> counted, hash |-> 0, seen |-> seen]]
  /\ UNCHANGED <<text, counted, entry, genLock, job>>

(* A hit, a stale entry shown while a job refreshes it, or a miss: without *)
(* a hash nothing that is cached counts.                                   *)
Outcome(seen, hash) ==
  IF seen = None \/ hash = NoHash THEN "miss" ELSE IF seen.hash = hash THEN "hit" ELSE "stale"

ReadSecond(c) ==
  /\ \/ /\ Waits(icalls[c], "readCache")
        /\ \E seen \in {entry, None} :
             icalls' = [icalls EXCEPT ![c].at = Outcome(seen, icalls[c].hash), ![c].seen = seen]
     \/ /\ Waits(icalls[c], "readHash")
        /\ \E hash \in ContentHash :
             icalls' = [icalls EXCEPT ![c].at = Outcome(icalls[c].seen, hash), ![c].hash = hash]
  /\ UNCHANGED <<text, counted, entry, genLock, job>>

Returned(c) ==
  /\ Waits(icalls[c], "hit") \/ Waits(icalls[c], "fresh")
  /\ icalls' = [icalls EXCEPT ![c] = None]
  /\ UNCHANGED <<text, counted, entry, genLock, job>>

(* enqueueGeneration: not while the lock is seen to be set; a job that is  *)
(* there, even one that has failed for good, makes the queue drop the new  *)
(* one, and an error of the queue is swallowed.                            *)
EnqueueGeneration(c) ==
  /\ Waits(icalls[c], "stale")
  /\ \E locked \in {genLock, FALSE} :
       job' \in {job, IF locked \/ job # None THEN job
                      ELSE [at |-> "waiting", hash |-> icalls[c].hash, text |-> 0,
                            whole |-> FALSE, attempts |-> JobAttempts]}
  /\ icalls' = [icalls EXCEPT ![c] = None]
  /\ UNCHANGED <<text, counted, entry, genLock>>

(* generateInline.  Under a lock it waits five seconds and returns what is *)
(* cached by then, whatever its hash; otherwise, and when nothing is       *)
(* cached, it sets the lock and generates.  What Redis does not answer     *)
(* reads as not there.                                                     *)
WaitForOther(c) ==
  /\ Waits(icalls[c], "miss")
  /\ genLock
  /\ entry # None
  /\ icalls' = [icalls EXCEPT ![c] = None]
  /\ UNCHANGED <<text, counted, entry, genLock, job>>

LockInline(c) ==
  /\ Waits(icalls[c], "miss")
  /\ \E locked \in {genLock, FALSE}, cached \in {entry, None} : ~locked \/ cached = None
  /\ SetsLock(TRUE)
  /\ icalls' = [icalls EXCEPT ![c].at = "generate"]
  /\ UNCHANGED <<text, counted, entry, job>>

(* generateInsights reads the content and asks the model.  It goes on      *)
(* without the posts when their query fails, and with a fixed answer when  *)
(* the reply cannot be parsed; neither can be told from the result.        *)
Generated == {[text |-> IF text <= ReadLimit THEN text ELSE ReadLimit, whole |-> TRUE],
              [text |-> 0, whole |-> FALSE]}

GenerateInline(c) ==
  /\ Waits(icalls[c], "generate")
  /\ \E got \in Generated :
       icalls' = [icalls EXCEPT ![c].at = "store", ![c].seen =
         [hash |-> icalls[c].hash, text |-> got.text, whole |-> got.whole]]
  /\ UNCHANGED <<text, counted, entry, genLock, job>>

StoreRehashed(c) ==
  /\ Waits(icalls[c], "store")
  /\ Stores([icalls[c].seen EXCEPT !.hash = counted])
  /\ icalls' = [icalls EXCEPT ![c].at = "unlock"]
  /\ UNCHANGED <<text, counted, genLock, job>>

(* Stored under the hash read before the model was asked.                  *)
StoreInline(c) ==
  /\ Waits(icalls[c], "store")
  /\ Stores(icalls[c].seen)
  /\ icalls' = [icalls EXCEPT ![c].at = "unlock"]
  /\ UNCHANGED <<text, counted, genLock, job>>

(* Whoever ends deletes the lock, be it his or not.                        *)
UnlockInline(c) ==
  /\ Waits(icalls[c], "unlock")
  /\ SetsLock(FALSE)
  /\ icalls' = [icalls EXCEPT ![c].at = "fresh"]
  /\ UNCHANGED <<text, counted, entry, job>>

GenerationFails(c) ==
  /\ Waits(icalls[c], "generate")
  /\ SetsLock(FALSE)
  /\ icalls' = [icalls EXCEPT ![c] = None]
  /\ UNCHANGED <<text, counted, entry, job>>

----------------------------------------------------------------------------
JobGoes(at) == job' = [job EXCEPT !.at = at]

(* InsightsProcessor.process: nothing to do when the entry already has the *)
(* hash of the job.                                                        *)
ProcessJob ==
  /\ Waits(job, "waiting")
  /\ \E seen \in {entry, None} :
       IF seen # None /\ seen.hash = job.hash THEN job' = None ELSE JobGoes("lock")
  /\ UNCHANGED <<text, counted, entry, genLock, icalls>>

LockJob ==
  /\ Waits(job, "lock")
  /\ SetsLock(TRUE)
  /\ JobGoes("generate")
  /\ UNCHANGED <<text, counted, entry, icalls>>

GenerateJob ==
  /\ Waits(job, "generate")
  /\ \E got \in Generated :
       job' = [job EXCEPT !.at = "store", !.text = got.text, !.whole = got.whole]
  /\ UNCHANGED <<text, counted, entry, genLock, icalls>>

StoreJob ==
  /\ Waits(job, "store")
  /\ Stores([hash |-> job.hash, text |-> job.text, whole |-> job.whole])
  /\ JobGoes("unlock")
  /\ UNCHANGED <<text, counted, genLock, icalls>>

UnlockJob ==
  /\ Waits(job, "unlock")
  /\ SetsLock(FALSE)
  /\ job' = None
  /\ UNCHANGED <<text, counted, entry, icalls>>

(* The model fails, or the worker stops: the job is tried again and, after *)
(* the last attempt, kept among the failed ones.                           *)
JobFails ==
  /\ job # None
  /\ job.at \in {"lock", "generate"}
  /\ SetsLock(FALSE)
  /\ job' = [job EXCEPT !.at = IF job.attempts = 1 THEN "failed" ELSE "waiting",
                        !.attempts = @ - 1]
  /\ UNCHANGED <<text, counted, entry, icalls>>

(* Only the last five failed jobs are kept.                                *)
FailedJobGoes ==
  /\ Waits(job, "failed")
  /\ job' = None
  /\ UNCHANGED <<text, counted, entry, genLock, icalls>>

InsightStep(c) ==
  \/ GetInsights(c) \/ ReadSecond(c) \/ Returned(c) \/ EnqueueGeneration(c) \/ WaitForOther(c)
  \/ LockInline(c) \/ GenerateInline(c) \/ StoreInline(c) \/ UnlockInline(c) \/ GenerationFails(c)

JobStep ==
  ProcessJob \/ LockJob \/ GenerateJob \/ StoreJob \/ UnlockJob \/ JobFails \/ FailedJobGoes

InsightsNext ==
  \/ \E c \in Calls : InsightStep(c)
  \/ JobStep
  \/ PostContent \/ CountContent \/ InvalidateCache \/ LockExpires

InsightsSpec == InsightsInit /\ [][InsightsNext]_insightVars

----------------------------------------------------------------------------
(* Insights served as cached or made on the spot were made of every post   *)
(* that was counted when the call began, or of as many as are ever read:   *)
(* with late jobs, retries, generators that overlap, an entry revived      *)
(* after its invalidation and a Redis that loses writes, no older insights *)
(* hide behind the hash of newer content (getInsights and generateInline   *)
(* in okestra.service.ts).  Only insights made after a query that failed,  *)
(* or from a reply that could not be parsed, are stored and served like    *)
(* any others and cover nothing.                                           *)
HitCoversContent ==
  \A c \in RowIds(icalls) :
    LET shown == icalls[c].seen
    IN icalls[c].at \in {"hit", "fresh"} /\ shown.whole =>
         shown.text >= icalls[c].since \/ shown.text >= ReadLimit
=============================================================================
