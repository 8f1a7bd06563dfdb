---------------------------- MODULE Tier1Pipeline ----------------------------
(***************************************************************************)
(* The asynchronous Tier 1 review (tier1.go, tier1_redis.go,               *)
(* tier1_feedback.go, tier1_audit.go): the proxy pushes a job to a Redis   *)
(* list, workers pop it, ask the model, and requeue, dead-letter or store  *)
(* the verdict, correct the profile and write the SQLite audit row.        *)
(*                                                                         *)
(* Every call to Redis, to the model or to SQLite is a step of its own.  A *)
(* Redis call has three outcomes: it works, it fails without effect, or    *)
(* the caller sees an error (a timeout) although it took effect.  Audit    *)
(* writes of "go func" are pending until some later step runs them.  The   *)
(* process may die at any point and start again; Redis and SQLite persist. *)
(*                                                                         *)
(* Redis commands take effect at most once: the retries of the client      *)
(* library, which could push a job twice, are not modelled.  Heartbeats    *)
(* and statistics are written by this code and read by nothing in it, and  *)
(* are left out.  Which profile a correction changes is TrustEngine's      *)
(* business.                                                               *)
(***************************************************************************)
EXTENDS Integers, Sequences, FiniteSets

CONSTANTS
  Jobs,         \* job identifiers; the proxy draws a fresh one per job
  Workers,
  MaxRetries,   \* config tier1_max_retries
  Tier0Of,      \* the decision each job's request was served under
  NoCopy,       \* an idle worker's job
  NoRow,        \* a job without an audit row
  MaxFaults,    \* bound: storage calls that fail
  MaxCrashes    \* bound: process deaths

Decisions == {"allow", "allow+stricter", "challenge", "block", "ban"}
Benign    == {"allow", "allow+stricter"}

Copy == [id : Jobs, retries : Nat]

PipelineAssumption ==
  /\ MaxRetries \in Nat /\ MaxFaults \in Nat /\ MaxCrashes \in Nat
  /\ Tier0Of \in [Jobs -> Decisions]
  /\ NoCopy \notin Copy

ASSUME PipelineConstants == PipelineAssumption

VARIABLES
  asked,      \* jobs the proxy has submitted
  queue,      \* the Redis list: copies of jobs, oldest first
  dead,       \* the dead-letter list
  results,    \* what StoreResult left: "none", "stored", or "unstored" after a failure
  marked,     \* jobs whose result says feedback_applied
  rows,       \* the audit table
  auditOpen,  \* the audit database is open
  pending,    \* audit writes handed to a goroutine
  stopping,   \* Stop has cancelled the pipeline's context
  wpc,        \* where each worker is
  wcopy,      \* the copy it holds
  wres,       \* the model's answer
  attempts,   \* history: Predict calls per job
  applied,    \* history: corrections applied per job
  hurt,       \* history: jobs a crash or a failed call has dropped
  faults,     \* storage failures so far
  crashes     \* process deaths so far

redisVars   == <<queue, dead, results, marked>>
auditVars   == <<rows, auditOpen, pending>>
workerVars  == <<wpc, wcopy, wres>>
historyVars == <<attempts, applied, hurt>>
pipeVars    == <<asked, redisVars, auditVars, stopping, workerVars, historyVars,
                 faults, crashes>>

-----------------------------------------------------------------------------
Answer   == [label : {"benign", "malicious"}, confident : BOOLEAN]
NoAnswer == [label |-> "benign", confident |-> FALSE]

WorkerPC == {"idle", "predict", "requeue", "deadletter", "store", "feedback",
             "logfeedback", "mark", "exited"}

Row      == [status : {"pending", "completed", "failed"}, feedback : {-1, 0, 1}]
Write    == [op : {"enqueue"}, id : Jobs]
              \cup [op : {"result"}, id : Jobs, status : {"completed", "failed"}]

\* ok: no error.  lost: an error and no effect.  unsure: an error all the same.
Outcome  == {"ok", "lost", "unsure"}
Effect(o) == o # "lost"

\* The environment may fail a call while it has faults left.
Faulty(o) ==
  /\ o # "ok" => faults < MaxFaults
  /\ faults' = IF o = "ok" THEN faults ELSE faults + 1

\* FeedbackEngine.Apply: +1 for a false positive of Tier 0, -1 for a false
\* negative, 0 for agreement or a verdict below the confidence threshold.
Correction(tier0, a) ==
  IF ~a.confident THEN 0
  ELSE IF tier0 \notin Benign /\ a.label = "benign"  THEN 1
  ELSE IF tier0 \in Benign /\ a.label = "malicious" THEN -1
  ELSE 0

-----------------------------------------------------------------------------
Init ==
  /\ asked = {} /\ queue = <<>> /\ dead = {} /\ marked = {}
  /\ results   = [j \in Jobs |-> "none"]
  /\ rows      = [j \in Jobs |-> NoRow]
  /\ auditOpen = TRUE /\ pending = {} /\ stopping = FALSE
  /\ wpc       = [w \in Workers |-> "idle"]
  /\ wcopy     = [w \in Workers |-> NoCopy]
  /\ wres      = [w \in Workers |-> NoAnswer]
  /\ attempts  = [j \in Jobs |-> 0]
  /\ applied   = [j \in Jobs |-> 0]
  /\ hurt = {} /\ faults = 0 /\ crashes = 0

\* The proxy submits a job; only an error-free push logs it.
Enqueue(j, o) ==
  /\ j \notin asked
  /\ asked' = asked \cup {j}
  /\ Faulty(o)
  /\ queue' = IF Effect(o) THEN Append(queue, [id |-> j, retries |-> 0]) ELSE queue
  /\ pending' = IF o = "ok" THEN pending \cup {[op |-> "enqueue", id |-> j]} ELSE pending
  /\ hurt' = IF Effect(o) THEN hurt ELSE hurt \cup {j}
  /\ UNCHANGED <<dead, results, marked, rows, auditOpen, stopping, workerVars,
                 attempts, applied, crashes>>

-----------------------------------------------------------------------------
(* A worker.                                                               *)

\* BLPOP removes the job before the worker has it.  With o = "unsure" the
\* reply is lost and the job with it; the worker sleeps and tries again.
Dequeue(w, o) ==
  /\ wpc[w] = "idle" /\ ~stopping /\ queue # <<>>
  /\ o \in {"ok", "unsure"} /\ Faulty(o)
  /\ queue' = Tail(queue)
  /\ IF o = "ok"
     THEN /\ wpc'   = [wpc EXCEPT ![w] = "predict"]
          /\ wcopy' = [wcopy EXCEPT ![w] = Head(queue)]
          /\ UNCHANGED hurt
     ELSE hurt' = hurt \cup {Head(queue).id} /\ UNCHANGED <<wpc, wcopy>>
  /\ UNCHANGED <<asked, dead, results, marked, auditVars, stopping, wres,
                 attempts, applied, crashes>>

Called(w) == attempts' = [attempts EXCEPT ![wcopy[w].id] = @ + 1]

\* The model answers; once the context is cancelled it cannot.
PredictAnswers(w, a) ==
  /\ wpc[w] = "predict" /\ ~stopping
  /\ Called(w)
  /\ wres' = [wres EXCEPT ![w] = a]
  /\ wpc'  = [wpc EXCEPT ![w] = "store"]
  /\ UNCHANGED <<asked, redisVars, auditVars, stopping, wcopy, applied, hurt,
                 faults, crashes>>

\* (mutant: <= for <, one attempt too many)
PredictFailsOnceMore(w) ==
  /\ wpc[w] = "predict"
  /\ Called(w)
  /\ wcopy' = [wcopy EXCEPT ![w].retries = @ + 1]
  /\ wpc' = [wpc EXCEPT ![w] = IF wcopy[w].retries + 1 <= MaxRetries THEN "requeue"
                                                                     ELSE "deadletter"]
  /\ UNCHANGED <<asked, redisVars, auditVars, stopping, wres, applied, hurt,
                 faults, crashes>>

\* The call fails, times out or is cancelled by Stop.
PredictFails(w) ==
  /\ wpc[w] = "predict"
  /\ Called(w)
  /\ LET retries == wcopy[w].retries + 1
     IN  /\ wcopy' = [wcopy EXCEPT ![w].retries = retries]
         /\ wpc' = [wpc EXCEPT ![w] = IF retries < MaxRetries THEN "requeue"
                                                              ELSE "deadletter"]
  /\ UNCHANGED <<asked, redisVars, auditVars, stopping, wres, applied, hurt,
                 faults, crashes>>

\* (mutant: a failed requeue ends the job instead of burying it)
RequeueOrForget(w, o) ==
  /\ wpc[w] = "requeue"
  /\ Faulty(o)
  /\ queue' = IF Effect(o) THEN Append(queue, wcopy[w]) ELSE queue
  /\ wpc'   = [wpc EXCEPT ![w] = "idle"]
  /\ wcopy' = [wcopy EXCEPT ![w] = NoCopy]
  /\ UNCHANGED <<asked, dead, results, marked, auditVars, stopping, wres,
                 historyVars, crashes>>

\* A failed requeue falls through to the dead-letter list.
Requeue(w, o) ==
  /\ wpc[w] = "requeue"
  /\ Faulty(o)
  /\ queue' = IF Effect(o) THEN Append(queue, wcopy[w]) ELSE queue
  /\ wpc'   = [wpc EXCEPT ![w] = IF o = "ok" THEN "idle" ELSE "deadletter"]
  /\ wcopy' = [wcopy EXCEPT ![w] = IF o = "ok" THEN NoCopy ELSE @]
  /\ UNCHANGED <<asked, dead, results, marked, auditVars, stopping, wres,
                 historyVars, crashes>>

\* (mutant: the worker goes on with the job still in its hands)
FinishHolding(w, status) ==
  /\ pending' = pending \cup {[op |-> "result", id |-> wcopy[w].id, status |-> status]}
  /\ wpc'   = [wpc EXCEPT ![w] = "idle"]
  /\ wcopy' = wcopy
  /\ wres'  = [wres EXCEPT ![w] = NoAnswer]

\* The end of process(): the audit update is handed to a goroutine.
Finish(w, status) ==
  /\ pending' = pending \cup {[op |-> "result", id |-> wcopy[w].id, status |-> status]}
  /\ wpc'   = [wpc EXCEPT ![w] = "idle"]
  /\ wcopy' = [wcopy EXCEPT ![w] = NoCopy]
  /\ wres'  = [wres EXCEPT ![w] = NoAnswer]

\* (mutant: the error message is not passed on to the audit)
MoveToFailedSilently(w, o) ==
  /\ wpc[w] = "deadletter"
  /\ Faulty(o)
  /\ dead' = IF Effect(o) THEN dead \cup {wcopy[w]} ELSE dead
  /\ hurt' = IF Effect(o) THEN hurt ELSE hurt \cup {wcopy[w].id}
  /\ Finish(w, "completed")
  /\ UNCHANGED <<asked, queue, results, marked, rows, auditOpen, stopping,
                 attempts, applied, crashes>>

MoveToFailed(w, o) ==
  /\ wpc[w] = "deadletter"
  /\ Faulty(o)
  /\ dead' = IF Effect(o) THEN dead \cup {wcopy[w]} ELSE dead
  /\ hurt' = IF Effect(o) THEN hurt ELSE hurt \cup {wcopy[w].id}
  /\ Finish(w, "failed")
  /\ UNCHANGED <<asked, queue, results, marked, rows, auditOpen, stopping,
                 attempts, applied, crashes>>

\* (mutant: the result is stored with feedback_applied already set)
StoreResultMarked(w, o) ==
  /\ wpc[w] = "store"
  /\ Faulty(o)
  /\ results' = [results EXCEPT ![wcopy[w].id] = IF Effect(o) THEN "stored" ELSE "unstored"]
  /\ marked'  = marked \cup {wcopy[w].id}
  /\ IF wres[w].confident
     THEN wpc' = [wpc EXCEPT ![w] = "feedback"] /\ UNCHANGED <<pending, wcopy, wres>>
     ELSE Finish(w, "completed")
  /\ UNCHANGED <<asked, queue, dead, rows, auditOpen, stopping, historyVars, crashes>>

\* A failure to store the verdict is logged and ignored.
StoreResult(w, o) ==
  /\ wpc[w] = "store"
  /\ Faulty(o)
  /\ results' = [results EXCEPT ![wcopy[w].id] = IF Effect(o) THEN "stored" ELSE "unstored"]
  /\ marked'  = IF Effect(o) THEN marked \ {wcopy[w].id} ELSE marked
  /\ IF wres[w].confident
     THEN wpc' = [wpc EXCEPT ![w] = "feedback"] /\ UNCHANGED <<pending, wcopy, wres>>
     ELSE Finish(w, "completed")
  /\ UNCHANGED <<asked, queue, dead, rows, auditOpen, stopping, historyVars, crashes>>

\* FeedbackEngine.Apply up to its audit call.
ApplyFeedback(w) ==
  /\ wpc[w] = "feedback"
  /\ IF Correction(Tier0Of[wcopy[w].id], wres[w]) # 0
     THEN /\ applied' = [applied EXCEPT ![wcopy[w].id] = @ + 1]
          /\ wpc' = [wpc EXCEPT ![w] = "logfeedback"]
          /\ UNCHANGED <<pending, wcopy, wres>>
     ELSE Finish(w, "completed") /\ UNCHANGED applied
  /\ UNCHANGED <<asked, redisVars, rows, auditOpen, stopping, attempts, hurt,
                 faults, crashes>>

\* UPDATE ... WHERE job_id = ?: no row, no effect, no error.  After an error
\* the result is not marked.
LogFeedback(w, o) ==
  /\ wpc[w] = "logfeedback"
  /\ o \in {"ok", "lost"} /\ Faulty(o)
  /\ LET j == wcopy[w].id
     IN  rows' = IF o = "ok" /\ rows[j] # NoRow
                 THEN [rows EXCEPT ![j].feedback = Correction(Tier0Of[j], wres[w])]
                 ELSE rows
  /\ IF o = "ok"
     THEN wpc' = [wpc EXCEPT ![w] = "mark"] /\ UNCHANGED <<pending, wcopy, wres>>
     ELSE Finish(w, "completed")
  /\ UNCHANGED <<asked, redisVars, auditOpen, stopping, historyVars, crashes>>

\* Its error is not looked at.
MarkFeedbackApplied(w, o) ==
  /\ wpc[w] = "mark"
  /\ Faulty(o)
  /\ marked' = IF Effect(o) THEN marked \cup {wcopy[w].id} ELSE marked
  /\ Finish(w, "completed")
  /\ UNCHANGED <<asked, queue, dead, results, rows, auditOpen, stopping,
                 historyVars, crashes>>

-----------------------------------------------------------------------------
(* The audit goroutines: an INSERT fails on a second row for the job, an   *)
(* UPDATE needs a row; a closed database or an error drops the write.      *)

RunWrite(x, o) ==
  /\ x \in pending
  /\ pending' = pending \ {x}
  /\ o \in {"ok", "lost"} /\ Faulty(o)
  /\ rows' = IF ~auditOpen \/ o = "lost" THEN rows
             ELSE IF x.op = "enqueue" /\ rows[x.id] = NoRow
             THEN [rows EXCEPT ![x.id] = [status |-> "pending", feedback |-> 0]]
             ELSE IF x.op = "result" /\ rows[x.id] # NoRow
             THEN [rows EXCEPT ![x.id].status = x.status]
             ELSE rows
  /\ UNCHANGED <<asked, redisVars, auditOpen, stopping, workerVars, historyVars, crashes>>

-----------------------------------------------------------------------------
(* Shutdown, and death followed by a new process.                          *)

Stop ==
  /\ ~stopping
  /\ stopping' = TRUE
  /\ UNCHANGED <<asked, redisVars, auditVars, workerVars, historyVars, faults, crashes>>

\* (mutant: an idle worker ends its loop whether or not Stop was called)
ExitEarly(w) ==
  /\ wpc[w] = "idle"
  /\ wpc' = [wpc EXCEPT ![w] = "exited"]
  /\ UNCHANGED <<asked, redisVars, auditVars, stopping, wcopy, wres, historyVars,
                 faults, crashes>>

\* (mutant: a stopping worker waits for the queue to drain)
ExitDrained(w) ==
  /\ stopping /\ wpc[w] = "idle" /\ queue = <<>>
  /\ wpc' = [wpc EXCEPT ![w] = "exited"]
  /\ UNCHANGED <<asked, redisVars, auditVars, stopping, wcopy, wres, historyVars,
                 faults, crashes>>

Exit(w) ==
  /\ stopping /\ wpc[w] = "idle"
  /\ wpc' = [wpc EXCEPT ![w] = "exited"]
  /\ UNCHANGED <<asked, redisVars, auditVars, stopping, wcopy, wres, historyVars,
                 faults, crashes>>

\* Stop's wg.Wait returns.
CloseAudit ==
  /\ stopping /\ auditOpen
  /\ \A w \in Workers : wpc[w] = "exited"
  /\ auditOpen' = FALSE
  /\ UNCHANGED <<asked, redisVars, rows, pending, stopping, workerVars, historyVars,
                 faults, crashes>>

\* Jobs in the hands of workers that have neither stored nor buried them.
InHand == {wcopy[w].id : w \in {x \in Workers :
             wpc[x] \in {"predict", "requeue", "deadletter", "store"}}}

Restart ==
  /\ crashes < MaxCrashes
  /\ crashes' = crashes + 1
  /\ hurt'    = hurt \cup InHand
  /\ pending' = {}
  /\ auditOpen' = TRUE /\ stopping' = FALSE
  /\ wpc'   = [w \in Workers |-> "idle"]
  /\ wcopy' = [w \in Workers |-> NoCopy]
  /\ wres'  = [w \in Workers |-> NoAnswer]
  /\ UNCHANGED <<asked, redisVars, rows, attempts, applied, faults>>

-----------------------------------------------------------------------------
WorkerStep(w) ==
  \/ \E a \in Answer : PredictAnswers(w, a)
  \/ PredictFails(w)
  \/ \E o \in Outcome :
       \/ Dequeue(w, o) \/ Requeue(w, o) \/ MoveToFailed(w, o) \/ StoreResult(w, o)
       \/ LogFeedback(w, o) \/ MarkFeedbackApplied(w, o)
  \/ ApplyFeedback(w)
  \/ Exit(w)

Next ==
  \/ \E j \in Jobs, o \in Outcome : Enqueue(j, o)
  \/ \E w \in Workers : WorkerStep(w)
  \/ \E x \in pending, o \in Outcome : RunWrite(x, o)
  \/ Stop \/ CloseAudit \/ Restart

Spec == Init /\ [][Next]_pipeVars

\* The worker goroutines are scheduled (their calls all have timeouts), and
\* so is Stop's wg.Wait; nothing obliges the proxy, Stop or a crash to happen.
Fairness == (\A w \in Workers : WF_pipeVars(WorkerStep(w))) /\ WF_pipeVars(CloseAudit)

FairSpec == Spec /\ Fairness
-----------------------------------------------------------------------------
(* Properties.                                                             *)

\* Types, with the length of the queue bounded by what was ever pushed.
PipeTypeOK ==
  /\ asked \subseteq Jobs
  /\ queue \in Seq(Copy)
  /\ dead \subseteq Copy
  /\ results \in [Jobs -> {"none", "stored", "unstored"}]
  /\ marked \subseteq Jobs
  /\ rows \in [Jobs -> Row \cup {NoRow}]
  /\ auditOpen \in BOOLEAN /\ stopping \in BOOLEAN
  /\ pending \subseteq Write
  /\ wpc \in [Workers -> WorkerPC]
  /\ wcopy \in [Workers -> Copy \cup {NoCopy}]
  /\ \A w \in Workers : wcopy[w] = NoCopy <=> wpc[w] \in {"idle", "exited"}
  /\ wres \in [Workers -> Answer]
  /\ attempts \in [Jobs -> Nat] /\ applied \in [Jobs -> Nat]
  /\ hurt \subseteq Jobs
  /\ faults \in 0..MaxFaults /\ crashes \in 0..MaxCrashes

Queued == {queue[i].id : i \in DOMAIN queue}
Judged == {j \in Jobs : results[j] # "none"}
Buried == {c.id : c \in dead}

\* A submitted job is in the queue, in a worker's hands, judged or
\* dead-lettered, unless a crash caught it in a worker's hands or the first
\* push, the reply of a pop or the dead-letter push failed.  In particular a requeue
\* that fails, with or without effect, never drops a job.
Accounted ==
  \A j \in asked : j \in Queued \cup InHand \cup Judged \cup Buried \cup hurt

\* The audit never says more than what happened: "completed" only of a judged
\* job, a recorded correction only of an applied one, "failed" only of a job
\* the pipeline gave up.
AuditSound ==
  \A j \in Jobs : rows[j] # NoRow =>
    /\ rows[j].status = "completed" => j \in Judged
    /\ rows[j].status = "failed" => j \in Buried \cup hurt
    /\ rows[j].feedback # 0 => applied[j] > 0

\* The dashboard's feedback_applied flag is set only after the correction.
MarkedAfterApplied == \A j \in marked : applied[j] = 1

AttemptLimit == IF MaxRetries = 0 THEN 1 ELSE MaxRetries

Live      == Queued \cup InHand
Corrected == {j \in Jobs : applied[j] > 0}

\* Bounded attempts, one judgement, one correction, whatever fails or dies:
\* a copy that survives an ambiguous requeue does not get a second life.
Review == INSTANCE Tier1Review WITH
  Limit <- AttemptLimit, live <- Live, tries <- attempts, judged <- Judged,
  givenUp <- Buried, corrected <- Corrected

RefinesReview == Review!Spec

\* With the workers scheduled, every queued job is judged or dead-lettered
\* unless a fault or a crash drops it or Stop ends the workers first.
EveryJobSettles ==
  \A j \in Jobs :
    j \in Queued ~> (j \in Judged \cup Buried \cup hurt \/ stopping)

\* Stop returns: the workers run out and the audit database is closed (or the
\* process dies first).
StopTerminates == stopping ~> (~auditOpen \/ ~stopping)

-----------------------------------------------------------------------------
(* A claim of the code that does not hold.                                 *)

\* tier1_audit.go: "LogFeedback records that a trustscore correction was
\* applied"; harvest_feedback.py builds its training rows from that column.
\* Without a fault or a crash, once the writes are through, it should be there.
CorrectionsAreAudited ==
  \A j \in Jobs :
    (faults = 0 /\ crashes = 0 /\ pending = {} /\ applied[j] > 0
       /\ \A w \in Workers : wpc[w] = "idle")
      => rows[j] # NoRow /\ rows[j].feedback # 0
=============================================================================
