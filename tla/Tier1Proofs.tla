----------------------------- MODULE Tier1Proofs -----------------------------
(***************************************************************************)
(* Proofs about Tier1Pipeline, for any number of jobs and workers, any     *)
(* number of retries and any number of faults and crashes.                 *)
(***************************************************************************)
EXTENDS Tier1Pipeline, TLAPS

-----------------------------------------------------------------------------
(* The inductive invariant.                                                *)

\* The worker may still attempt, judge or correct its job; a worker on its way
\* to the dead-letter list will not.
Active(w) ==
  wpc[w] \in {"predict", "requeue", "store", "feedback", "logfeedback", "mark"}

\* A job has one copy at most that is queued or in the hands of an active
\* worker, and none before it was submitted.
OneCopy ==
  /\ \A i, k \in DOMAIN queue : queue[i].id = queue[k].id => i = k
  /\ \A i \in DOMAIN queue, w \in Workers : Active(w) => wcopy[w].id # queue[i].id
  /\ \A v, w \in Workers : Active(v) /\ Active(w) /\ wcopy[v].id = wcopy[w].id => v = w
  /\ Queued \subseteq asked
  /\ \A w \in Workers : wcopy[w] # NoCopy => wcopy[w].id \in asked

\* A judged job is out of the queue and of the hands of whoever could attempt
\* it again.
JudgedOnce ==
  /\ Judged \subseteq asked /\ Judged \cap Queued = {}
  /\ \A w \in Workers :
       wpc[w] \in {"predict", "requeue", "store"} => wcopy[w].id \notin Judged
  /\ \A w \in Workers :
       wpc[w] \in {"feedback", "logfeedback", "mark"} => wcopy[w].id \in Judged

\* A correction follows the judgement, once.
AppliedOnce ==
  /\ \A j \in Jobs : applied[j] # 0 => applied[j] = 1 /\ j \in Judged
  /\ \A w \in Workers : wpc[w] = "feedback" => applied[wcopy[w].id] = 0
  /\ \A w \in Workers : wpc[w] \in {"logfeedback", "mark"} => applied[wcopy[w].id] = 1

\* What the audit goroutines are about to write is true.
PendingSound ==
  \A x \in pending : x.op = "result" =>
    /\ x.status = "completed" => x.id \in Judged
    /\ x.status = "failed" => x.id \in Buried \cup hurt

\* The retry counter of a copy that may still be attempted counts all attempts.
AttemptsCounted ==
  /\ \A i \in DOMAIN queue :
       /\ attempts[queue[i].id] <= queue[i].retries
       /\ queue[i].retries < AttemptLimit
  /\ \A w \in Workers : wpc[w] \in {"predict", "requeue"} =>
       /\ attempts[wcopy[w].id] <= wcopy[w].retries
       /\ wcopy[w].retries < AttemptLimit
  /\ \A w \in Workers : wpc[w] = "store" => attempts[wcopy[w].id] > 0
  /\ \A j \in Jobs : attempts[j] <= AttemptLimit
  /\ \A j \in Jobs \ asked : attempts[j] = 0
  /\ Buried \subseteq asked

SafeInv ==
  /\ PipeTypeOK /\ OneCopy /\ JudgedOnce /\ AppliedOnce /\ AttemptsCounted
  /\ MarkedAfterApplied /\ PendingSound /\ AuditSound /\ Accounted

-----------------------------------------------------------------------------
(* The queue.                                                              *)

LEMMA LimitFacts ==
  /\ AttemptLimit \in Nat /\ 0 < AttemptLimit
  /\ \A n \in Nat : n < MaxRetries => n < AttemptLimit
BY PipelineConstants DEF AttemptLimit, PipelineAssumption

\* What Append and Tail make of the queue, position by position.
LEMMA PushedQueue ==
  ASSUME NEW q \in Seq(Copy), NEW c \in Copy
  PROVE  /\ Append(q, c) \in Seq(Copy)
         /\ DOMAIN Append(q, c) = DOMAIN q \cup {Len(q) + 1}
         /\ Len(q) + 1 \notin DOMAIN q
         /\ Append(q, c)[Len(q) + 1] = c
         /\ \A i \in DOMAIN q : Append(q, c)[i] = q[i]
OBVIOUS

LEMMA PoppedQueue ==
  ASSUME NEW q \in Seq(Copy), q # <<>>
  PROVE  /\ Tail(q) \in Seq(Copy) /\ Head(q) \in Copy
         /\ 1 \in DOMAIN q /\ Head(q) = q[1]
         /\ \A i \in DOMAIN Tail(q) : i + 1 \in DOMAIN q /\ i + 1 # 1 /\ Tail(q)[i] = q[i + 1]
         /\ \A i \in DOMAIN q : i = 1 \/ \E k \in DOMAIN Tail(q) : i = k + 1
         /\ \A i \in DOMAIN Tail(q) : i \in Int
<1>1. Tail(q) \in Seq(Copy) /\ Head(q) \in Copy /\ Head(q) = q[1]
  OBVIOUS
<1>2. DOMAIN q = 1..Len(q) /\ DOMAIN Tail(q) = 1..(Len(q) - 1) /\ Len(q) \in Nat /\ Len(q) > 0
  OBVIOUS
<1>3. \A i \in DOMAIN Tail(q) : i + 1 \in DOMAIN q /\ i + 1 # 1 /\ Tail(q)[i] = q[i + 1]
  BY <1>2
<1>4. \A i \in DOMAIN q : i = 1 \/ (i - 1 \in DOMAIN Tail(q) /\ i = (i - 1) + 1)
  BY <1>2
<1> QED  BY <1>1, <1>2, <1>3, <1>4

LEMMA InitIsSafe == Init => SafeInv
<1> SUFFICES ASSUME Init PROVE SafeInv
  OBVIOUS
<1>1. PipeTypeOK
  <2>1. NoAnswer \in Answer /\ "idle" \in WorkerPC
    BY DEF NoAnswer, Answer, WorkerPC
  <2>2. 0 \in 0..MaxFaults /\ 0 \in 0..MaxCrashes
    BY PipelineConstants DEF PipelineAssumption
  <2>3. queue \in Seq(Copy)
    BY DEF Init
  <2> QED  BY <2>1, <2>2, <2>3 DEF Init, PipeTypeOK
<1>2. Queued = {} /\ Judged = {} /\ Buried = {} /\ InHand = {}
  BY DEF Init, Queued, Judged, Buried, InHand
<1>3. OneCopy /\ JudgedOnce /\ AppliedOnce
  BY <1>2 DEF Init, OneCopy, Active, JudgedOnce, AppliedOnce
<1>4. AttemptsCounted
  BY <1>2, LimitFacts DEF Init, AttemptsCounted
<1>5. MarkedAfterApplied /\ PendingSound /\ AuditSound /\ Accounted
  BY <1>2 DEF Init, MarkedAfterApplied, PendingSound, AuditSound, Accounted
<1> QED  BY <1>1, <1>3, <1>4, <1>5 DEF SafeInv

-----------------------------------------------------------------------------
(* The steps.                                                              *)

LEMMA FaultsTyped ==
  ASSUME NEW o, faults \in 0..MaxFaults, Faulty(o)
  PROVE  faults' \in 0..MaxFaults
BY PipelineConstants DEF Faulty, PipelineAssumption

LEMMA EnqueueIsSafe ==
  ASSUME SafeInv, NEW j \in Jobs, NEW o \in Outcome, Enqueue(j, o)
  PROVE  SafeInv'
<1> DEFINE c == [id |-> j, retries |-> 0]
<1>1. /\ j \notin asked /\ asked' = asked \cup {j}
      /\ queue' = queue \/ queue' = Append(queue, c)
      /\ hurt' = hurt \/ hurt' = hurt \cup {j}
      /\ queue' = Append(queue, c) \/ j \in hurt'
      /\ faults' \in 0..MaxFaults
      /\ pending' = pending \/ pending' = pending \cup {[op |-> "enqueue", id |-> j]}
      /\ UNCHANGED <<dead, results, marked, rows, auditOpen, stopping, workerVars,
                     attempts, applied, crashes>>
  <2>1. faults' \in 0..MaxFaults
    BY FaultsTyped DEF Enqueue, SafeInv, PipeTypeOK
  <2> QED  BY <2>1 DEF Enqueue
<1>2. c \in Copy /\ queue \in Seq(Copy) /\ c.id = j /\ c.retries = 0
  BY DEF Copy, SafeInv, PipeTypeOK
<1> HIDE DEF c
<1>3. /\ queue' \in Seq(Copy)
      /\ \A i \in DOMAIN queue' : (i \in DOMAIN queue /\ queue'[i] = queue[i])
                                  \/ (i \notin DOMAIN queue /\ i = Len(queue) + 1 /\ queue'[i] = c)
      /\ \A i \in DOMAIN queue : i \in DOMAIN queue' /\ queue'[i] = queue[i]
  BY <1>1, <1>2, PushedQueue
<1>4. PipeTypeOK'
  BY <1>1, <1>3 DEF SafeInv, PipeTypeOK, Write, workerVars
<1>5. UNCHANGED <<Judged, Buried, InHand>>
  BY <1>1 DEF Judged, Buried, InHand, workerVars
<1>6. Queued \subseteq Queued' /\ Queued' \subseteq Queued \cup {j}
        /\ (j \in Queued' \/ j \in hurt')
  BY <1>1, <1>2, <1>3, PushedQueue DEF Queued
<1>7. OneCopy'
  <2>1. ASSUME NEW i \in DOMAIN queue', NEW k \in DOMAIN queue', queue'[i].id = queue'[k].id
        PROVE  i = k
    <3>1. \A n \in DOMAIN queue : queue[n].id \in asked
      BY DEF SafeInv, OneCopy, Queued
    <3> QED  BY <1>1, <1>2, <1>3, <2>1, <3>1 DEF SafeInv, OneCopy
  <2>2. ASSUME NEW i \in DOMAIN queue', NEW w \in Workers, Active(w)'
        PROVE  wcopy'[w].id # queue'[i].id
    <3>1. Active(w) /\ wcopy' = wcopy /\ wcopy[w].id \in asked
      BY <1>1, <2>2 DEF SafeInv, PipeTypeOK, OneCopy, Active, workerVars
    <3> QED  BY <1>1, <1>2, <1>3, <2>2, <3>1 DEF SafeInv, OneCopy
  <2>3. \A v, w \in Workers :
          Active(v)' /\ Active(w)' /\ wcopy'[v].id = wcopy'[w].id => v = w
    BY <1>1 DEF SafeInv, OneCopy, Active, workerVars
  <2>4. Queued' \subseteq asked' /\ \A w \in Workers : wcopy'[w] # NoCopy => wcopy'[w].id \in asked'
    BY <1>1, <1>6 DEF SafeInv, OneCopy, workerVars
  <2> QED  BY <2>1, <2>2, <2>3, <2>4 DEF OneCopy
<1>8. JudgedOnce' /\ AppliedOnce'
  BY <1>1, <1>5, <1>6 DEF SafeInv, JudgedOnce, AppliedOnce, workerVars
<1>9. AttemptsCounted'
  BY <1>1, <1>2, <1>3, <1>5, LimitFacts DEF SafeInv, AttemptsCounted, workerVars
<1>10. PendingSound' /\ AuditSound' /\ MarkedAfterApplied'
  BY <1>1, <1>5 DEF SafeInv, PendingSound, AuditSound, MarkedAfterApplied
<1>11. Accounted'
  BY <1>1, <1>5, <1>6 DEF SafeInv, Accounted
<1> QED  BY <1>4, <1>7, <1>8, <1>9, <1>10, <1>11 DEF SafeInv

\* A worker with a job holds a copy of a submitted one.
LEMMA BusyWorker ==
  ASSUME SafeInv, NEW w \in Workers, wpc[w] \notin {"idle", "exited"}
  PROVE  wcopy[w] \in Copy /\ wcopy[w].id \in Jobs /\ wcopy[w].id \in asked
           /\ wcopy[w].retries \in Nat /\ wres[w] \in Answer
BY DEF SafeInv, PipeTypeOK, OneCopy, Copy

\* Only w's program counter and copy differ.
OnlyWorker(w) ==
  \A v \in Workers \ {w} : wpc'[v] = wpc[v] /\ wcopy'[v] = wcopy[v]

LEMMA DequeueIsSafe ==
  ASSUME SafeInv, NEW w \in Workers, NEW o \in Outcome, Dequeue(w, o)
  PROVE  SafeInv'
<1> DEFINE h == Head(queue)
<1>1. /\ wpc[w] = "idle" /\ queue # <<>> /\ queue \in Seq(Copy) /\ queue' = Tail(queue)
      /\ UNCHANGED <<asked, dead, results, marked, rows, auditOpen, pending, stopping, wres,
                     attempts, applied, crashes>>
  BY DEF Dequeue, SafeInv, PipeTypeOK, auditVars
<1>2. /\ h \in Copy /\ h.id \in Jobs /\ queue' \in Seq(Copy)
      /\ 1 \in DOMAIN queue /\ h = queue[1]
      /\ \A i \in DOMAIN queue' : i + 1 \in DOMAIN queue /\ i + 1 # 1 /\ queue'[i] = queue[i + 1]
      /\ \A i \in DOMAIN queue : i = 1 \/ \E k \in DOMAIN queue' : i = k + 1
      /\ \A i \in DOMAIN queue' : i \in Int
  BY <1>1, PoppedQueue DEF Copy
<1>3. faults' \in 0..MaxFaults
  BY FaultsTyped DEF Dequeue, SafeInv, PipeTypeOK
<1>4. \/ /\ wpc' = [wpc EXCEPT ![w] = "predict"] /\ wcopy' = [wcopy EXCEPT ![w] = h]
         /\ hurt' = hurt
      \/ hurt' = hurt \cup {h.id} /\ UNCHANGED <<wpc, wcopy>>
  BY DEF Dequeue
<1>5. h.id \in Queued /\ h.id \in asked /\ h.id \notin Judged
  BY <1>1, <1>2 DEF SafeInv, OneCopy, JudgedOnce, Queued
<1> HIDE DEF h
<1>a. /\ OnlyWorker(w)
      /\ \/ wpc'[w] = "predict" /\ wcopy'[w] = h /\ hurt' = hurt
         \/ wpc'[w] = "idle" /\ wcopy'[w] = wcopy[w] /\ hurt' = hurt \cup {h.id}
  BY <1>1, <1>4 DEF SafeInv, PipeTypeOK, OnlyWorker
<1>6. PipeTypeOK'
  <2>1. wpc' \in [Workers -> WorkerPC] /\ wcopy' \in [Workers -> Copy \cup {NoCopy}]
    BY <1>2, <1>4 DEF SafeInv, PipeTypeOK, WorkerPC
  <2>2. \A v \in Workers : wcopy'[v] = NoCopy <=> wpc'[v] \in {"idle", "exited"}
    BY <1>2, <1>4, PipelineConstants DEF SafeInv, PipeTypeOK, PipelineAssumption
  <2>3. hurt' \subseteq Jobs
    BY <1>2, <1>4 DEF SafeInv, PipeTypeOK
  <2> QED  BY <1>1, <1>2, <1>3, <2>1, <2>2, <2>3 DEF SafeInv, PipeTypeOK
<1>7. /\ Judged' = Judged /\ Buried' = Buried
      /\ Queued' \subseteq Queued /\ h.id \notin Queued'
      /\ \A j \in Queued : j = h.id \/ j \in Queued'
  <2>1. Judged' = Judged /\ Buried' = Buried
    BY <1>1 DEF Judged, Buried
  <2>2. Queued' \subseteq Queued /\ \A j \in Queued : j = h.id \/ j \in Queued'
    BY <1>2 DEF Queued
  <2>3. \A i \in DOMAIN queue' : queue'[i].id # h.id
    BY <1>2 DEF SafeInv, OneCopy
  <2> QED  BY <2>1, <2>2, <2>3 DEF Queued
<1>8. OneCopy'
  <2>1. ASSUME NEW i \in DOMAIN queue', NEW k \in DOMAIN queue', queue'[i].id = queue'[k].id
        PROVE  i = k
    <3>1. i + 1 = k + 1
      BY <1>2, <2>1 DEF SafeInv, OneCopy
    <3> QED  BY <1>2, <3>1
  <2>2. ASSUME NEW i \in DOMAIN queue', NEW v \in Workers, Active(v)'
        PROVE  wcopy'[v].id # queue'[i].id
    <3>1. CASE v = w
      <4>1. wcopy'[w] = h
        BY <1>a, <2>2, <3>1 DEF Active
      <4> QED  BY <1>7, <3>1, <4>1 DEF Queued
    <3>2. CASE v # w
      <4>1. Active(v) /\ wcopy'[v] = wcopy[v]
        BY <1>a, <2>2, <3>2 DEF Active, OnlyWorker
      <4> QED  BY <1>2, <4>1 DEF SafeInv, OneCopy
    <3> QED  BY <3>1, <3>2
  <2>3. ASSUME NEW u \in Workers, NEW v \in Workers, Active(u)', Active(v)', u # v
        PROVE  wcopy'[u].id # wcopy'[v].id
    <3>1. \A x \in Workers : Active(x) => wcopy[x].id # h.id
      BY <1>2 DEF SafeInv, OneCopy
    <3>2. \A x \in Workers : x # w /\ Active(x)' => Active(x) /\ wcopy'[x] = wcopy[x]
      BY <1>a DEF Active, OnlyWorker
    <3>3. Active(w)' => wcopy'[w] = h
      BY <1>a DEF Active
    <3> QED  BY <2>3, <3>1, <3>2, <3>3 DEF SafeInv, OneCopy
  <2>4. Queued' \subseteq asked' /\ \A v \in Workers : wcopy'[v] # NoCopy => wcopy'[v].id \in asked'
    BY <1>1, <1>4, <1>5, <1>7 DEF SafeInv, OneCopy, PipeTypeOK
  <2> QED  BY <2>1, <2>2, <2>3, <2>4 DEF OneCopy
<1>9. JudgedOnce' /\ AppliedOnce'
  <2>1. JudgedOnce'
    BY <1>1, <1>5, <1>7, <1>a DEF SafeInv, JudgedOnce, OnlyWorker
  <2>2. AppliedOnce'
    BY <1>1, <1>7, <1>a DEF SafeInv, AppliedOnce, OnlyWorker
  <2> QED  BY <2>1, <2>2
<1>10. AttemptsCounted'
  <2>1. attempts[h.id] <= h.retries /\ h.retries < AttemptLimit
    BY <1>2 DEF SafeInv, AttemptsCounted
  <2> QED  BY <1>1, <1>2, <1>4, <1>7, <2>1 DEF SafeInv, PipeTypeOK, AttemptsCounted
<1>11. PendingSound' /\ AuditSound' /\ MarkedAfterApplied'
  BY <1>1, <1>4, <1>7 DEF SafeInv, PendingSound, AuditSound, MarkedAfterApplied
<1>12. Accounted'
  <2>1. InHand \subseteq InHand' /\ (h.id \in InHand' \/ h.id \in hurt') /\ hurt \subseteq hurt'
    BY <1>1, <1>4 DEF InHand, SafeInv, PipeTypeOK
  <2> QED  BY <1>1, <1>7, <2>1 DEF SafeInv, Accounted
<1> QED  BY <1>6, <1>8, <1>9, <1>10, <1>11, <1>12 DEF SafeInv

\* What a step of worker w that leaves the queue alone does to the copies.
LEMMA WorkerMoves ==
  ASSUME SafeInv, NEW w \in Workers,
         NEW pc \in WorkerPC, NEW c \in Copy \cup {NoCopy},
         c = NoCopy <=> pc \in {"idle", "exited"},
         wpc' = [wpc EXCEPT ![w] = pc], wcopy' = [wcopy EXCEPT ![w] = c],
         c # NoCopy => wcopy[w] # NoCopy /\ c.id = wcopy[w].id,
         pc \notin {"idle", "exited", "deadletter"} => Active(w),
         queue' = queue, asked' = asked
  PROVE  /\ wpc' \in [Workers -> WorkerPC] /\ wcopy' \in [Workers -> Copy \cup {NoCopy}]
         /\ \A v \in Workers : wcopy'[v] = NoCopy <=> wpc'[v] \in {"idle", "exited"}
         /\ OnlyWorker(w) /\ wpc'[w] = pc /\ wcopy'[w] = c
         /\ OneCopy'
         /\ Queued' = Queued
         /\ \A j \in InHand : j = wcopy[w].id \/ j \in InHand'
<1>1. wpc \in [Workers -> WorkerPC] /\ wcopy \in [Workers -> Copy \cup {NoCopy}]
      /\ \A v \in Workers : wcopy[v] = NoCopy <=> wpc[v] \in {"idle", "exited"}
  BY DEF SafeInv, PipeTypeOK
<1>2. wpc' \in [Workers -> WorkerPC] /\ wcopy' \in [Workers -> Copy \cup {NoCopy}]
  BY <1>1
<1>3. OnlyWorker(w) /\ wpc'[w] = pc /\ wcopy'[w] = c
  BY <1>1 DEF OnlyWorker
<1>4. \A v \in Workers : wcopy'[v] = NoCopy <=> wpc'[v] \in {"idle", "exited"}
  <2> SUFFICES ASSUME NEW v \in Workers
               PROVE  wcopy'[v] = NoCopy <=> wpc'[v] \in {"idle", "exited"}
    OBVIOUS
  <2>1. CASE v = w
    BY <1>3, <2>1
  <2>2. CASE v # w
    BY <1>1, <1>3, <2>2 DEF OnlyWorker
  <2> QED  BY <2>1, <2>2
<1>5. Queued' = Queued
  BY DEF Queued
<1>6. OneCopy'
  <2>1. \A v \in Workers : Active(v)' => Active(v) /\ wcopy'[v].id = wcopy[v].id
    <3>1. pc \notin {"idle", "exited", "deadletter"} => c.id = wcopy[w].id
      OBVIOUS
    <3> QED  BY <1>3, <3>1 DEF Active, OnlyWorker
  <2>2. \A v \in Workers : wcopy'[v] # NoCopy => wcopy[v] # NoCopy /\ wcopy'[v].id = wcopy[v].id
    BY <1>3 DEF OnlyWorker
  <2> QED  BY <1>5, <2>1, <2>2 DEF SafeInv, OneCopy
<1>7. ASSUME NEW j \in InHand, j # wcopy[w].id
      PROVE  j \in InHand'
  <2>1. PICK v \in Workers : wpc[v] \in {"predict", "requeue", "deadletter", "store"}
                               /\ j = wcopy[v].id
    BY <1>7 DEF InHand
  <2>2. wpc'[v] = wpc[v] /\ wcopy'[v] = wcopy[v]
    BY <1>3, <1>7, <2>1 DEF OnlyWorker
  <2> QED  BY <2>1, <2>2 DEF InHand
<1> QED  BY <1>2, <1>3, <1>4, <1>5, <1>6, <1>7

LEMMA PredictAnswersIsSafe ==
  ASSUME SafeInv, NEW w \in Workers, NEW a \in Answer, PredictAnswers(w, a)
  PROVE  SafeInv'
<1> DEFINE j == wcopy[w].id
<1>1. /\ wpc[w] = "predict" /\ wpc' = [wpc EXCEPT ![w] = "store"]
      /\ wres' = [wres EXCEPT ![w] = a] /\ attempts' = [attempts EXCEPT ![j] = @ + 1]
      /\ UNCHANGED <<asked, queue, dead, results, marked, rows, auditOpen, pending, stopping,
                     wcopy, applied, hurt, faults, crashes>>
  BY DEF PredictAnswers, Called, redisVars, auditVars
<1>2. wcopy[w] \in Copy /\ j \in Jobs /\ j \in asked /\ wcopy[w] # NoCopy
        /\ wcopy[w].retries \in Nat
  BY <1>1, BusyWorker, PipelineConstants DEF PipelineAssumption
<1> HIDE DEF j
<1>3. wcopy' = [wcopy EXCEPT ![w] = wcopy[w]]
  BY <1>1 DEF SafeInv, PipeTypeOK
<1>4. /\ wpc' \in [Workers -> WorkerPC] /\ wcopy' \in [Workers -> Copy \cup {NoCopy}]
      /\ \A v \in Workers : wcopy'[v] = NoCopy <=> wpc'[v] \in {"idle", "exited"}
      /\ OnlyWorker(w) /\ wpc'[w] = "store" /\ wcopy'[w] = wcopy[w]
      /\ OneCopy' /\ Queued' = Queued
  BY <1>1, <1>2, <1>3, WorkerMoves DEF WorkerPC, Active
<1>5. attempts \in [Jobs -> Nat] /\ attempts' \in [Jobs -> Nat]
        /\ attempts'[j] = attempts[j] + 1
        /\ \A k \in Jobs : k # j => attempts'[k] = attempts[k]
  BY <1>1, <1>2 DEF SafeInv, PipeTypeOK
<1>6. PipeTypeOK'
  <2>1. wres' \in [Workers -> Answer]
    BY <1>1 DEF SafeInv, PipeTypeOK
  <2> QED  BY <1>1, <1>4, <1>5, <2>1 DEF SafeInv, PipeTypeOK
<1>7. UNCHANGED <<Judged, Buried, InHand>>
  <2>1. UNCHANGED <<Judged, Buried>>
    BY <1>1 DEF Judged, Buried
  <2>2. \A v \in Workers : /\ wcopy'[v] = wcopy[v]
                           /\ wpc[v] \in {"predict", "requeue", "deadletter", "store"}
                              <=> wpc'[v] \in {"predict", "requeue", "deadletter", "store"}
    BY <1>1, <1>4 DEF OnlyWorker
  <2> QED  BY <2>1, <2>2 DEF InHand
<1>8. JudgedOnce'
  BY <1>1, <1>4, <1>7 DEF SafeInv, JudgedOnce, OnlyWorker
<1>9. AppliedOnce'
  BY <1>1, <1>4, <1>7 DEF SafeInv, AppliedOnce, OnlyWorker
<1>10. AttemptsCounted'
  <2>1. attempts[j] <= wcopy[w].retries /\ wcopy[w].retries < AttemptLimit
    BY <1>1 DEF SafeInv, AttemptsCounted, j
  <2>2. \A i \in DOMAIN queue : queue[i].id # j /\ queue[i].id \in Jobs
    <3>1. \A i \in DOMAIN queue : queue[i] \in Copy
      BY DEF SafeInv, PipeTypeOK
    <3>2. \A i \in DOMAIN queue : wcopy[w].id # queue[i].id
      BY <1>1 DEF SafeInv, OneCopy, Active
    <3> QED  BY <3>1, <3>2 DEF Copy, j
  <2>3. ASSUME NEW v \in Workers, wpc'[v] \in {"predict", "requeue"}
        PROVE  /\ attempts'[wcopy'[v].id] <= wcopy'[v].retries
               /\ wcopy'[v].retries < AttemptLimit
    <3>1. v # w /\ wpc[v] = wpc'[v] /\ wcopy'[v] = wcopy[v]
      BY <1>4, <2>3 DEF OnlyWorker
    <3>2. wcopy[v].id # j /\ wcopy[v].id \in Jobs
      BY <1>1, <2>3, <3>1, BusyWorker DEF SafeInv, OneCopy, Active, j
    <3> QED  BY <1>5, <2>3, <3>1, <3>2 DEF SafeInv, AttemptsCounted
  <2>4. ASSUME NEW v \in Workers, wpc'[v] = "store"
        PROVE  attempts'[wcopy'[v].id] > 0
    <3>1. CASE v = w
      BY <1>2, <1>4, <1>5, <3>1 DEF j
    <3>2. CASE v # w
      <4>1. wpc[v] = "store" /\ wcopy'[v] = wcopy[v]
        BY <1>4, <2>4, <3>2 DEF OnlyWorker
      <4>2. wcopy[v].id \in Jobs /\ attempts[wcopy[v].id] > 0
        BY <4>1, BusyWorker DEF SafeInv, AttemptsCounted
      <4> QED  BY <1>5, <4>1, <4>2
    <3> QED  BY <3>1, <3>2
  <2>5. \A k \in Jobs : attempts'[k] <= AttemptLimit
    BY <1>2, <1>5, <2>1, LimitFacts DEF SafeInv, AttemptsCounted
  <2>6. \A k \in Jobs \ asked' : attempts'[k] = 0
    BY <1>1, <1>2, <1>5 DEF SafeInv, AttemptsCounted, j
  <2>7. \A i \in DOMAIN queue' : attempts'[queue'[i].id] <= queue'[i].retries
                                   /\ queue'[i].retries < AttemptLimit
    BY <1>1, <1>5, <2>2 DEF SafeInv, AttemptsCounted
  <2> QED  BY <1>1, <1>7, <2>3, <2>4, <2>5, <2>6, <2>7 DEF SafeInv, AttemptsCounted
<1>11. PendingSound' /\ AuditSound' /\ MarkedAfterApplied' /\ Accounted'
  BY <1>1, <1>4, <1>7 DEF SafeInv, PendingSound, AuditSound, MarkedAfterApplied, Accounted
<1> QED  BY <1>4, <1>6, <1>8, <1>9, <1>10, <1>11 DEF SafeInv

\* While w is active, nobody else can act on its job and no copy is queued.
LEMMA SoleCopy ==
  ASSUME SafeInv, NEW w \in Workers, Active(w)
  PROVE  /\ \A i \in DOMAIN queue : queue[i] \in Copy /\ queue[i].id # wcopy[w].id
         /\ \A v \in Workers : v # w /\ Active(v) => /\ wcopy[v].id # wcopy[w].id
                                                     /\ wcopy[v].id \in Jobs
                                                     /\ wcopy[v].retries \in Nat
<1>1. \A i \in DOMAIN queue : queue[i] \in Copy
  BY DEF SafeInv, PipeTypeOK
<1>2. \A v \in Workers : Active(v) => wcopy[v].id \in Jobs /\ wcopy[v].retries \in Nat
  BY BusyWorker DEF Active
<1> QED  BY <1>1, <1>2 DEF SafeInv, OneCopy

LEMMA PredictFailsIsSafe ==
  ASSUME SafeInv, NEW w \in Workers, PredictFails(w)
  PROVE  SafeInv'
<1> DEFINE j == wcopy[w].id
           n == wcopy[w].retries + 1
           c == [wcopy[w] EXCEPT !.retries = n]
           pc == IF n < MaxRetries THEN "requeue" ELSE "deadletter"
<1>1. /\ wpc[w] = "predict" /\ wpc' = [wpc EXCEPT ![w] = pc]
      /\ attempts' = [attempts EXCEPT ![j] = @ + 1]
      /\ UNCHANGED <<asked, queue, dead, results, marked, rows, auditOpen, pending, stopping,
                     wres, applied, hurt, faults, crashes>>
  BY DEF PredictFails, Called, redisVars, auditVars
<1>2. wcopy[w] \in Copy /\ j \in Jobs /\ j \in asked /\ wcopy[w] # NoCopy
        /\ wcopy[w].retries \in Nat
  BY <1>1, BusyWorker, PipelineConstants DEF PipelineAssumption
<1>3. c \in Copy /\ c.id = j /\ c.retries = n /\ c # NoCopy /\ n \in Nat
  BY <1>2, PipelineConstants DEF Copy, PipelineAssumption
<1>4. wcopy' = [wcopy EXCEPT ![w] = c]
  BY <1>1 DEF PredictFails, SafeInv, PipeTypeOK
<1>5. pc \in {"requeue", "deadletter"} /\ (pc = "requeue" => n < AttemptLimit)
  BY <1>3, LimitFacts
<1>6. attempts[j] < n /\ n <= AttemptLimit
  <2>1. attempts[j] <= wcopy[w].retries /\ wcopy[w].retries < AttemptLimit
    BY <1>1 DEF SafeInv, AttemptsCounted
  <2> QED  BY <1>2, <2>1, LimitFacts DEF SafeInv, PipeTypeOK
<1> HIDE DEF j, n, c, pc
<1>7. /\ wpc' \in [Workers -> WorkerPC] /\ wcopy' \in [Workers -> Copy \cup {NoCopy}]
      /\ \A v \in Workers : wcopy'[v] = NoCopy <=> wpc'[v] \in {"idle", "exited"}
      /\ OnlyWorker(w) /\ wpc'[w] = pc /\ wcopy'[w] = c
      /\ OneCopy' /\ Queued' = Queued
      /\ \A k \in InHand : k = j \/ k \in InHand'
  <2>1. pc \in WorkerPC /\ Active(w) /\ c.id = wcopy[w].id
    BY <1>1, <1>3, <1>5 DEF WorkerPC, Active, j
  <2> QED  BY <1>1, <1>2, <1>3, <1>4, <1>5, <2>1, WorkerMoves DEF j
<1>8. attempts \in [Jobs -> Nat] /\ attempts' \in [Jobs -> Nat]
        /\ attempts'[j] = attempts[j] + 1
        /\ \A k \in Jobs : k # j => attempts'[k] = attempts[k]
  BY <1>1, <1>2 DEF SafeInv, PipeTypeOK
<1>9. PipeTypeOK'
  BY <1>1, <1>7, <1>8 DEF SafeInv, PipeTypeOK
<1>10. UNCHANGED <<Judged, Buried>> /\ InHand \subseteq InHand'
  <2>1. UNCHANGED <<Judged, Buried>>
    BY <1>1 DEF Judged, Buried
  <2>2. j \in InHand'
    BY <1>3, <1>5, <1>7 DEF InHand
  <2> QED  BY <1>7, <2>1, <2>2
<1>11. JudgedOnce'
  BY <1>1, <1>3, <1>5, <1>7, <1>10 DEF SafeInv, JudgedOnce, OnlyWorker, j
<1>12. AppliedOnce'
  BY <1>1, <1>5, <1>7, <1>10 DEF SafeInv, AppliedOnce, OnlyWorker
<1>13. AttemptsCounted'
  <2>1. Active(w)
    BY <1>1 DEF Active
  <2>2. ASSUME NEW v \in Workers, wpc'[v] \in {"predict", "requeue", "store"}
        PROVE  /\ wpc'[v] # "store" => /\ attempts'[wcopy'[v].id] <= wcopy'[v].retries
                                       /\ wcopy'[v].retries < AttemptLimit
               /\ wpc'[v] = "store" => attempts'[wcopy'[v].id] > 0
    <3>1. CASE v = w
      BY <1>3, <1>5, <1>6, <1>7, <1>8, <1>2, <2>2, <3>1
    <3>2. CASE v # w
      <4>1. wpc[v] = wpc'[v] /\ wcopy'[v] = wcopy[v]
        BY <1>7, <3>2 DEF OnlyWorker
      <4>2. wcopy[v].id # j /\ wcopy[v].id \in Jobs
        BY <2>1, <2>2, <3>2, <4>1, SoleCopy DEF Active, j
      <4> QED  BY <1>8, <2>2, <4>1, <4>2 DEF SafeInv, AttemptsCounted
    <3> QED  BY <3>1, <3>2
  <2>3. \A k \in Jobs : attempts'[k] <= AttemptLimit
    BY <1>2, <1>3, <1>6, <1>8, LimitFacts DEF SafeInv, AttemptsCounted
  <2>4. \A k \in Jobs \ asked' : attempts'[k] = 0
    BY <1>1, <1>2, <1>8 DEF SafeInv, AttemptsCounted
  <2>5. \A i \in DOMAIN queue' : attempts'[queue'[i].id] <= queue'[i].retries
                                   /\ queue'[i].retries < AttemptLimit
    <3>1. \A i \in DOMAIN queue : queue[i].id # j /\ queue[i].id \in Jobs
      BY <2>1, SoleCopy DEF Copy, j
    <3> QED  BY <1>1, <1>8, <3>1 DEF SafeInv, AttemptsCounted
  <2> QED  BY <1>1, <1>10, <2>2, <2>3, <2>4, <2>5 DEF SafeInv, AttemptsCounted
<1>14. PendingSound' /\ AuditSound' /\ MarkedAfterApplied' /\ Accounted'
  BY <1>1, <1>7, <1>10 DEF SafeInv, PendingSound, AuditSound, MarkedAfterApplied, Accounted
<1> QED  BY <1>7, <1>9, <1>11, <1>12, <1>13, <1>14 DEF SafeInv

LEMMA RequeueIsSafe ==
  ASSUME SafeInv, NEW w \in Workers, NEW o \in Outcome, Requeue(w, o)
  PROVE  SafeInv'
<1> DEFINE c == wcopy[w]
           j == wcopy[w].id
<1>1. /\ wpc[w] = "requeue"
      /\ UNCHANGED <<asked, dead, results, marked, rows, auditOpen, pending, stopping,
                     wres, attempts, applied, hurt, crashes>>
  BY DEF Requeue, auditVars, historyVars
<1>2. c \in Copy /\ j \in Jobs /\ j \in asked /\ c # NoCopy /\ c.id = j /\ Active(w)
  BY <1>1, BusyWorker, PipelineConstants DEF PipelineAssumption, Active
<1>3. /\ OnlyWorker(w)
      /\ \/ wpc'[w] = "idle" /\ wcopy'[w] = NoCopy /\ queue' = Append(queue, c)
         \/ wpc'[w] = "deadletter" /\ wcopy'[w] = c /\ queue' \in {queue, Append(queue, c)}
  BY DEF Requeue, SafeInv, PipeTypeOK, OnlyWorker, Effect, Outcome
<1>4. faults' \in 0..MaxFaults
  BY FaultsTyped DEF Requeue, SafeInv, PipeTypeOK
<1>5. /\ wpc' \in [Workers -> WorkerPC] /\ wcopy' \in [Workers -> Copy \cup {NoCopy}]
      /\ \A v \in Workers : wcopy'[v] = NoCopy <=> wpc'[v] \in {"idle", "exited"}
  <2>1. wpc' \in [Workers -> WorkerPC]
    BY DEF Requeue, SafeInv, PipeTypeOK, WorkerPC
  <2>2. wcopy' \in [Workers -> Copy \cup {NoCopy}]
    BY <1>2 DEF Requeue, SafeInv, PipeTypeOK
  <2>3. \A v \in Workers : wcopy'[v] = NoCopy <=> wpc'[v] \in {"idle", "exited"}
    BY <1>2, <1>3 DEF SafeInv, PipeTypeOK, OnlyWorker
  <2> QED  BY <2>1, <2>2, <2>3
<1>6. queue \in Seq(Copy)
  BY DEF SafeInv, PipeTypeOK
<1> HIDE DEF c, j
<1>7. /\ queue' \in Seq(Copy)
      /\ \A i \in DOMAIN queue' : (i \in DOMAIN queue /\ queue'[i] = queue[i])
                                  \/ (i \notin DOMAIN queue /\ i = Len(queue) + 1 /\ queue'[i] = c)
      /\ \A i \in DOMAIN queue : i \in DOMAIN queue' /\ queue'[i] = queue[i]
      /\ wpc'[w] = "idle" => Len(queue) + 1 \in DOMAIN queue' /\ queue'[Len(queue) + 1] = c
  BY <1>2, <1>3, <1>6, PushedQueue
<1>8. PipeTypeOK'
  BY <1>1, <1>4, <1>5, <1>7 DEF SafeInv, PipeTypeOK
<1>9. /\ UNCHANGED <<Judged, Buried>>
      /\ Queued \subseteq Queued' /\ Queued' \subseteq Queued \cup {j}
      /\ wpc'[w] = "idle" => j \in Queued'
  <2>1. UNCHANGED <<Judged, Buried>>
    BY <1>1 DEF Judged, Buried
  <2>2. Queued \subseteq Queued' /\ Queued' \subseteq Queued \cup {j}
    BY <1>2, <1>7 DEF Queued
  <2>3. wpc'[w] = "idle" => j \in Queued'
    BY <1>2, <1>7 DEF Queued
  <2> QED  BY <2>1, <2>2, <2>3
<1>10. ~Active(w)' /\ \A v \in Workers : Active(v)' => v # w /\ Active(v) /\ wcopy'[v] = wcopy[v]
  BY <1>3 DEF Active, OnlyWorker
<1>11. OneCopy'
  <2>1. ASSUME NEW i \in DOMAIN queue', NEW k \in DOMAIN queue', queue'[i].id = queue'[k].id
        PROVE  i = k
    <3>1. \A n \in DOMAIN queue : queue[n].id # j
      BY <1>2, SoleCopy DEF j
    <3> QED  BY <1>2, <1>7, <2>1, <3>1 DEF SafeInv, OneCopy
  <2>2. ASSUME NEW i \in DOMAIN queue', NEW v \in Workers, Active(v)'
        PROVE  wcopy'[v].id # queue'[i].id
    <3>1. wcopy[v].id # j
      BY <1>2, <1>10, <2>2, SoleCopy DEF j
    <3> QED  BY <1>2, <1>7, <1>10, <2>2, <3>1 DEF SafeInv, OneCopy
  <2>3. \A u, v \in Workers :
          Active(u)' /\ Active(v)' /\ wcopy'[u].id = wcopy'[v].id => u = v
    BY <1>10 DEF SafeInv, OneCopy
  <2>4. Queued' \subseteq asked' /\ \A v \in Workers : wcopy'[v] # NoCopy => wcopy'[v].id \in asked'
    BY <1>1, <1>2, <1>3, <1>9 DEF SafeInv, OneCopy, OnlyWorker
  <2> QED  BY <2>1, <2>2, <2>3, <2>4 DEF OneCopy
<1>12. JudgedOnce'
  <2>1. j \notin Judged
    BY <1>1 DEF SafeInv, JudgedOnce, j
  <2> QED  BY <1>1, <1>3, <1>9, <2>1 DEF SafeInv, JudgedOnce, OnlyWorker
<1>13. AppliedOnce'
  BY <1>1, <1>3, <1>9 DEF SafeInv, AppliedOnce, OnlyWorker
<1>14. AttemptsCounted'
  <2>1. attempts[j] <= c.retries /\ c.retries < AttemptLimit
    BY <1>1 DEF SafeInv, AttemptsCounted, j, c
  <2>2. \A i \in DOMAIN queue' : attempts'[queue'[i].id] <= queue'[i].retries
                                   /\ queue'[i].retries < AttemptLimit
    BY <1>1, <1>2, <1>7, <2>1 DEF SafeInv, AttemptsCounted
  <2>3. \A v \in Workers : wpc'[v] \in {"predict", "requeue", "store"} =>
                             wpc'[v] = wpc[v] /\ wcopy'[v] = wcopy[v]
    BY <1>3 DEF OnlyWorker
  <2> QED  BY <1>1, <1>9, <2>2, <2>3 DEF SafeInv, AttemptsCounted
<1>15. PendingSound' /\ AuditSound' /\ MarkedAfterApplied'
  BY <1>1, <1>9 DEF SafeInv, PendingSound, AuditSound, MarkedAfterApplied
<1>16. Accounted'
  <2>1. ASSUME NEW k \in InHand PROVE k \in InHand' \cup Queued'
    <3>1. PICK v \in Workers : wpc[v] \in {"predict", "requeue", "deadletter", "store"}
                                 /\ k = wcopy[v].id
      BY DEF InHand
    <3>2. CASE v # w
      <4>1. wpc'[v] = wpc[v] /\ wcopy'[v] = wcopy[v]
        BY <1>3, <3>2 DEF OnlyWorker
      <4> QED  BY <3>1, <4>1 DEF InHand
    <3>3. CASE v = w /\ wpc'[w] = "idle"
      BY <1>9, <3>1, <3>3 DEF j
    <3>4. CASE v = w /\ wpc'[w] # "idle"
      <4>1. wpc'[v] = "deadletter" /\ wcopy'[v].id = k
        BY <1>3, <3>1, <3>4 DEF c
      <4> QED  BY <4>1 DEF InHand
    <3> QED  BY <3>2, <3>3, <3>4
  <2> QED  BY <1>1, <1>9, <2>1 DEF SafeInv, Accounted
<1> QED  BY <1>8, <1>11, <1>12, <1>13, <1>14, <1>15, <1>16 DEF SafeInv

\* Where Finish leaves the worker and what it hands to the audit.
LEMMA FinishMoves ==
  ASSUME SafeInv, NEW w \in Workers, wpc[w] \notin {"idle", "exited"},
         NEW status \in {"completed", "failed"}, Finish(w, status),
         queue' = queue, asked' = asked
  PROVE  /\ wpc' \in [Workers -> WorkerPC] /\ wcopy' \in [Workers -> Copy \cup {NoCopy}]
         /\ \A v \in Workers : wcopy'[v] = NoCopy <=> wpc'[v] \in {"idle", "exited"}
         /\ OnlyWorker(w) /\ wpc'[w] = "idle" /\ wcopy'[w] = NoCopy
         /\ OneCopy' /\ Queued' = Queued
         /\ \A k \in InHand : k = wcopy[w].id \/ k \in InHand'
         /\ wres' \in [Workers -> Answer] /\ pending' \subseteq Write
         /\ \A x \in pending' :
              x \in pending \/ (x.op = "result" /\ x.id = wcopy[w].id /\ x.status = status)
<1>1. /\ wpc' = [wpc EXCEPT ![w] = "idle"] /\ wcopy' = [wcopy EXCEPT ![w] = NoCopy]
      /\ wres' = [wres EXCEPT ![w] = NoAnswer]
      /\ pending' = pending \cup {[op |-> "result", id |-> wcopy[w].id, status |-> status]}
  BY DEF Finish
<1>2. wcopy[w].id \in Jobs
  BY BusyWorker
<1>3. NoAnswer \in Answer /\ wres' \in [Workers -> Answer]
  BY <1>1 DEF NoAnswer, Answer, SafeInv, PipeTypeOK
<1>4. pending' \subseteq Write
  BY <1>1, <1>2 DEF Write, SafeInv, PipeTypeOK
<1>5. /\ wpc' \in [Workers -> WorkerPC] /\ wcopy' \in [Workers -> Copy \cup {NoCopy}]
      /\ \A v \in Workers : wcopy'[v] = NoCopy <=> wpc'[v] \in {"idle", "exited"}
      /\ OnlyWorker(w) /\ wpc'[w] = "idle" /\ wcopy'[w] = NoCopy
      /\ OneCopy' /\ Queued' = Queued
      /\ \A k \in InHand : k = wcopy[w].id \/ k \in InHand'
  <2>1. "idle" \in WorkerPC
    BY DEF WorkerPC
  <2> QED  BY <1>1, <2>1, WorkerMoves
<1> QED  BY <1>1, <1>3, <1>4, <1>5

LEMMA MoveToFailedIsSafe ==
  ASSUME SafeInv, NEW w \in Workers, NEW o \in Outcome, MoveToFailed(w, o)
  PROVE  SafeInv'
<1> DEFINE j == wcopy[w].id
<1>1. /\ wpc[w] = "deadletter" /\ Finish(w, "failed")
      /\ \/ dead' = dead \cup {wcopy[w]} /\ hurt' = hurt
         \/ dead' = dead /\ hurt' = hurt \cup {j}
      /\ UNCHANGED <<asked, queue, results, marked, rows, auditOpen, stopping,
                     attempts, applied, crashes>>
  BY DEF MoveToFailed
<1>2. wcopy[w] \in Copy /\ j \in Jobs /\ j \in asked
  BY <1>1, BusyWorker
<1>3. faults' \in 0..MaxFaults
  BY FaultsTyped DEF MoveToFailed, SafeInv, PipeTypeOK
<1>4. /\ wpc' \in [Workers -> WorkerPC] /\ wcopy' \in [Workers -> Copy \cup {NoCopy}]
      /\ \A v \in Workers : wcopy'[v] = NoCopy <=> wpc'[v] \in {"idle", "exited"}
      /\ OnlyWorker(w) /\ wpc'[w] = "idle" /\ wcopy'[w] = NoCopy
      /\ OneCopy' /\ Queued' = Queued
      /\ \A k \in InHand : k = j \/ k \in InHand'
      /\ wres' \in [Workers -> Answer] /\ pending' \subseteq Write
      /\ \A x \in pending' :
           x \in pending \/ (x.op = "result" /\ x.id = j /\ x.status = "failed")
  BY <1>1, FinishMoves
<1> HIDE DEF j
<1>5. PipeTypeOK'
  <2>1. dead' \subseteq Copy /\ hurt' \subseteq Jobs
    BY <1>1, <1>2 DEF SafeInv, PipeTypeOK
  <2> QED  BY <1>1, <1>3, <1>4, <2>1 DEF SafeInv, PipeTypeOK
<1>6. /\ Judged' = Judged /\ Buried \subseteq Buried' /\ hurt \subseteq hurt'
      /\ Buried' \subseteq Buried \cup {j} /\ j \in Buried' \cup hurt'
  <2>1. Judged' = Judged
    BY <1>1 DEF Judged
  <2> QED  BY <1>1, <2>1 DEF Buried, j
<1>7. JudgedOnce' /\ AppliedOnce'
  <2>1. JudgedOnce'
    BY <1>1, <1>4, <1>6 DEF SafeInv, JudgedOnce, OnlyWorker
  <2>2. AppliedOnce'
    BY <1>1, <1>4, <1>6 DEF SafeInv, AppliedOnce, OnlyWorker
  <2> QED  BY <2>1, <2>2
<1>8. AttemptsCounted'
  <2>1. \A v \in Workers : wpc'[v] \in {"predict", "requeue", "store"} =>
                             wpc'[v] = wpc[v] /\ wcopy'[v] = wcopy[v]
    BY <1>4 DEF OnlyWorker
  <2> QED  BY <1>1, <1>2, <1>6, <2>1 DEF SafeInv, AttemptsCounted
<1>9. PendingSound'
  BY <1>4, <1>6 DEF SafeInv, PendingSound
<1>10. AuditSound' /\ MarkedAfterApplied' /\ Accounted'
  BY <1>1, <1>4, <1>6 DEF SafeInv, AuditSound, MarkedAfterApplied, Accounted
<1> QED  BY <1>4, <1>5, <1>7, <1>8, <1>9, <1>10 DEF SafeInv

LEMMA StoreResultIsSafe ==
  ASSUME SafeInv, NEW w \in Workers, NEW o \in Outcome, StoreResult(w, o)
  PROVE  SafeInv'
<1> DEFINE j == wcopy[w].id
<1>1. /\ wpc[w] = "store"
      /\ results' = [results EXCEPT ![j] = IF Effect(o) THEN "stored" ELSE "unstored"]
      /\ marked' \in {marked, marked \ {j}}
      /\ UNCHANGED <<asked, queue, dead, rows, auditOpen, stopping, attempts, applied, hurt,
                     crashes>>
  BY DEF StoreResult, historyVars
<1>2. wcopy[w] \in Copy /\ j \in Jobs /\ j \in asked /\ wcopy[w] # NoCopy /\ Active(w)
  BY <1>1, BusyWorker, PipelineConstants DEF PipelineAssumption, Active
<1>3. faults' \in 0..MaxFaults
  BY FaultsTyped DEF StoreResult, SafeInv, PipeTypeOK
<1>4. /\ wpc' \in [Workers -> WorkerPC] /\ wcopy' \in [Workers -> Copy \cup {NoCopy}]
      /\ \A v \in Workers : wcopy'[v] = NoCopy <=> wpc'[v] \in {"idle", "exited"}
      /\ OnlyWorker(w)
      /\ (wpc'[w] = "idle" /\ wcopy'[w] = NoCopy) \/ (wpc'[w] = "feedback" /\ wcopy'[w] = wcopy[w])
      /\ OneCopy' /\ Queued' = Queued
      /\ \A k \in InHand : k = j \/ k \in InHand'
      /\ wres' \in [Workers -> Answer] /\ pending' \subseteq Write
      /\ \A x \in pending' :
           x \in pending \/ (x.op = "result" /\ x.id = j /\ x.status = "completed")
  <2>1. CASE wres[w].confident
    <3>1. wpc' = [wpc EXCEPT ![w] = "feedback"] /\ UNCHANGED <<pending, wcopy, wres>>
      BY <2>1 DEF StoreResult
    <3>2. wcopy' = [wcopy EXCEPT ![w] = wcopy[w]]
      BY <3>1 DEF SafeInv, PipeTypeOK
    <3>3. "feedback" \in WorkerPC
      BY DEF WorkerPC
    <3>4. /\ wpc' \in [Workers -> WorkerPC] /\ wcopy' \in [Workers -> Copy \cup {NoCopy}]
          /\ \A v \in Workers : wcopy'[v] = NoCopy <=> wpc'[v] \in {"idle", "exited"}
          /\ OnlyWorker(w) /\ wpc'[w] = "feedback" /\ wcopy'[w] = wcopy[w]
          /\ OneCopy' /\ Queued' = Queued
          /\ \A k \in InHand : k = j \/ k \in InHand'
      BY <1>1, <1>2, <3>1, <3>2, <3>3, WorkerMoves
    <3>5. wres' \in [Workers -> Answer] /\ pending' \subseteq Write
      BY <3>1 DEF SafeInv, PipeTypeOK
    <3> QED  BY <3>1, <3>4, <3>5
  <2>2. CASE ~wres[w].confident
    <3>1. Finish(w, "completed")
      BY <2>2 DEF StoreResult
    <3> QED  BY <1>1, <3>1, FinishMoves
  <2> QED  BY <2>1, <2>2
<1> HIDE DEF j
<1>5. /\ results' \in [Jobs -> {"none", "stored", "unstored"}]
      /\ Judged' = Judged \cup {j} /\ Buried' = Buried
  <2>1. results \in [Jobs -> {"none", "stored", "unstored"}]
    BY DEF SafeInv, PipeTypeOK
  <2>2. results' \in [Jobs -> {"none", "stored", "unstored"}] /\ results'[j] # "none"
          /\ \A k \in Jobs : k # j => results'[k] = results[k]
    BY <1>1, <1>2, <2>1
  <2>3. Judged' = Judged \cup {j}
    BY <1>2, <2>2 DEF Judged
  <2>4. Buried' = Buried
    BY <1>1 DEF Buried
  <2> QED  BY <2>2, <2>3, <2>4
<1>6. PipeTypeOK'
  <2>1. marked' \subseteq Jobs
    BY <1>1 DEF SafeInv, PipeTypeOK
  <2> QED  BY <1>1, <1>3, <1>4, <1>5, <2>1 DEF SafeInv, PipeTypeOK
<1>7. \A v \in Workers : v # w /\ Active(v) => wcopy[v].id # j
  BY <1>2, SoleCopy DEF j
<1>8. JudgedOnce'
  <2>1. Judged' \subseteq asked' /\ Judged' \cap Queued' = {}
    <3>1. j \notin Queued
      BY <1>2, SoleCopy DEF Queued, j
    <3> QED  BY <1>1, <1>2, <1>4, <1>5, <3>1 DEF SafeInv, JudgedOnce
  <2>2. ASSUME NEW v \in Workers, wpc'[v] \in {"predict", "requeue", "store"}
        PROVE  wcopy'[v].id \notin Judged'
    <3>1. v # w /\ wpc'[v] = wpc[v] /\ wcopy'[v] = wcopy[v]
      BY <1>4, <2>2 DEF OnlyWorker
    <3> QED  BY <1>5, <1>7, <2>2, <3>1 DEF SafeInv, JudgedOnce, Active
  <2>3. \A v \in Workers :
          wpc'[v] \in {"feedback", "logfeedback", "mark"} => wcopy'[v].id \in Judged'
    BY <1>4, <1>5 DEF SafeInv, JudgedOnce, OnlyWorker, j
  <2> QED  BY <2>1, <2>2, <2>3 DEF JudgedOnce
<1>9. AppliedOnce'
  <2>1. applied[j] = 0
    BY <1>1, <1>2 DEF SafeInv, JudgedOnce, AppliedOnce, j
  <2> QED  BY <1>1, <1>4, <1>5, <2>1 DEF SafeInv, AppliedOnce, OnlyWorker, j
<1>10. AttemptsCounted'
  <2>1. \A v \in Workers : wpc'[v] \in {"predict", "requeue", "store"} =>
                             wpc'[v] = wpc[v] /\ wcopy'[v] = wcopy[v]
    BY <1>4 DEF OnlyWorker
  <2> QED  BY <1>1, <1>5, <2>1 DEF SafeInv, AttemptsCounted
<1>11. PendingSound'
  BY <1>1, <1>4, <1>5 DEF SafeInv, PendingSound
<1>12. AuditSound' /\ MarkedAfterApplied' /\ Accounted'
  BY <1>1, <1>4, <1>5 DEF SafeInv, AuditSound, MarkedAfterApplied, Accounted
<1> QED  BY <1>4, <1>6, <1>8, <1>9, <1>10, <1>11, <1>12 DEF SafeInv

LEMMA ApplyFeedbackIsSafe ==
  ASSUME SafeInv, NEW w \in Workers, ApplyFeedback(w)
  PROVE  SafeInv'
<1> DEFINE j == wcopy[w].id
<1>1. /\ wpc[w] = "feedback"
      /\ UNCHANGED <<asked, queue, dead, results, marked, rows, auditOpen, stopping,
                     attempts, hurt, faults, crashes>>
  BY DEF ApplyFeedback, redisVars
<1>2. wcopy[w] \in Copy /\ j \in Jobs /\ j \in asked /\ wcopy[w] # NoCopy /\ Active(w)
        /\ j \in Judged /\ applied[j] = 0
  BY <1>1, BusyWorker, PipelineConstants
  DEF PipelineAssumption, Active, SafeInv, JudgedOnce, AppliedOnce
<1>3. /\ wpc' \in [Workers -> WorkerPC] /\ wcopy' \in [Workers -> Copy \cup {NoCopy}]
      /\ \A v \in Workers : wcopy'[v] = NoCopy <=> wpc'[v] \in {"idle", "exited"}
      /\ OnlyWorker(w)
      /\ \/ wpc'[w] = "idle" /\ wcopy'[w] = NoCopy /\ applied' = applied
         \/ /\ wpc'[w] = "logfeedback" /\ wcopy'[w] = wcopy[w]
            /\ applied' = [applied EXCEPT ![j] = @ + 1]
      /\ OneCopy' /\ Queued' = Queued
      /\ \A k \in InHand : k = j \/ k \in InHand'
      /\ wres' \in [Workers -> Answer] /\ pending' \subseteq Write
      /\ \A x \in pending' :
           x \in pending \/ (x.op = "result" /\ x.id = j /\ x.status = "completed")
  <2>1. CASE Correction(Tier0Of[j], wres[w]) # 0
    <3>1. /\ wpc' = [wpc EXCEPT ![w] = "logfeedback"] /\ UNCHANGED <<pending, wcopy, wres>>
          /\ applied' = [applied EXCEPT ![j] = @ + 1]
      BY <2>1 DEF ApplyFeedback
    <3>2. wcopy' = [wcopy EXCEPT ![w] = wcopy[w]]
      BY <3>1 DEF SafeInv, PipeTypeOK
    <3>3. "logfeedback" \in WorkerPC
      BY DEF WorkerPC
    <3>4. /\ wpc' \in [Workers -> WorkerPC] /\ wcopy' \in [Workers -> Copy \cup {NoCopy}]
          /\ \A v \in Workers : wcopy'[v] = NoCopy <=> wpc'[v] \in {"idle", "exited"}
          /\ OnlyWorker(w) /\ wpc'[w] = "logfeedback" /\ wcopy'[w] = wcopy[w]
          /\ OneCopy' /\ Queued' = Queued
          /\ \A k \in InHand : k = wcopy[w].id \/ k \in InHand'
      BY <1>1, <1>2, <3>1, <3>2, <3>3, WorkerMoves
    <3>5. wres' \in [Workers -> Answer] /\ pending' \subseteq Write
      BY <3>1 DEF SafeInv, PipeTypeOK
    <3> QED  BY <3>1, <3>4, <3>5
  <2>2. CASE Correction(Tier0Of[j], wres[w]) = 0
    <3>1. Finish(w, "completed") /\ applied' = applied
      BY <2>2 DEF ApplyFeedback
    <3> QED  BY <1>1, <3>1, FinishMoves
  <2> QED  BY <2>1, <2>2
<1> HIDE DEF j
<1>4. /\ applied \in [Jobs -> Nat] /\ applied' \in [Jobs -> Nat]
      /\ \A k \in Jobs : k # j => applied'[k] = applied[k]
      /\ wpc'[w] = "idle" => applied'[j] = 0
      /\ wpc'[w] = "logfeedback" => applied'[j] = 1
  <2>1. applied \in [Jobs -> Nat]
    BY DEF SafeInv, PipeTypeOK
  <2> QED  BY <1>2, <1>3, <2>1
<1>5. PipeTypeOK'
  BY <1>1, <1>3, <1>4 DEF SafeInv, PipeTypeOK
<1>6. UNCHANGED <<Judged, Buried>>
  BY <1>1 DEF Judged, Buried
<1>7. JudgedOnce'
  BY <1>1, <1>2, <1>3, <1>6 DEF SafeInv, JudgedOnce, OnlyWorker, j
<1>8. AppliedOnce'
  <2>1. \A k \in Jobs : applied'[k] # 0 => applied'[k] = 1 /\ k \in Judged'
    BY <1>2, <1>3, <1>4, <1>6 DEF SafeInv, AppliedOnce
  <2>2. ASSUME NEW v \in Workers, v # w, wpc'[v] \in {"feedback", "logfeedback", "mark"}
        PROVE  wpc'[v] = wpc[v] /\ wcopy'[v] = wcopy[v] /\ applied'[wcopy[v].id] = applied[wcopy[v].id]
    <3>1. wpc'[v] = wpc[v] /\ wcopy'[v] = wcopy[v]
      BY <1>3, <2>2 DEF OnlyWorker
    <3>2. wcopy[v].id # j /\ wcopy[v].id \in Jobs
      BY <1>2, <2>2, <3>1, SoleCopy DEF Active, j
    <3> QED  BY <1>4, <3>1, <3>2
  <2>3. wpc'[w] \in {"idle", "logfeedback"} /\ (wpc'[w] = "logfeedback" => applied'[wcopy'[w].id] = 1)
    <3>1. wpc'[w] = "idle" \/ (wpc'[w] = "logfeedback" /\ wcopy'[w] = wcopy[w])
      BY <1>3
    <3>2. wpc'[w] = "logfeedback" => wcopy'[w].id = j
      BY <3>1 DEF j
    <3> QED  BY <1>4, <3>1, <3>2
  <2> QED  BY <2>1, <2>2, <2>3 DEF SafeInv, AppliedOnce
<1>9. AttemptsCounted'
  <2>1. \A v \in Workers : wpc'[v] \in {"predict", "requeue", "store"} =>
                             wpc'[v] = wpc[v] /\ wcopy'[v] = wcopy[v]
    BY <1>3 DEF OnlyWorker
  <2> QED  BY <1>1, <1>6, <2>1 DEF SafeInv, AttemptsCounted
<1>10. \A k \in Jobs : applied[k] # 0 => applied'[k] = applied[k]
  BY <1>2, <1>4
<1>11. PendingSound'
  BY <1>1, <1>2, <1>3, <1>6 DEF SafeInv, PendingSound
<1>12. AuditSound' /\ MarkedAfterApplied'
  <2>1. AuditSound'
    BY <1>1, <1>4, <1>6, <1>10 DEF SafeInv, AuditSound
  <2>2. MarkedAfterApplied'
    BY <1>1, <1>10 DEF SafeInv, MarkedAfterApplied, PipeTypeOK
  <2> QED  BY <2>1, <2>2
<1>13. Accounted'
  BY <1>1, <1>2, <1>3, <1>6 DEF SafeInv, Accounted
<1> QED  BY <1>3, <1>5, <1>7, <1>8, <1>9, <1>11, <1>12, <1>13 DEF SafeInv

LEMMA LogFeedbackIsSafe ==
  ASSUME SafeInv, NEW w \in Workers, NEW o \in Outcome, LogFeedback(w, o)
  PROVE  SafeInv'
<1> DEFINE j == wcopy[w].id
           f == Correction(Tier0Of[j], wres[w])
<1>1. /\ wpc[w] = "logfeedback"
      /\ \/ rows' = rows
         \/ rows[j] # NoRow /\ rows' = [rows EXCEPT ![j].feedback = f]
      /\ UNCHANGED <<asked, queue, dead, results, marked, auditOpen, stopping, attempts, applied,
                     hurt, crashes>>
  BY DEF LogFeedback, redisVars, historyVars
<1>2. wcopy[w] \in Copy /\ j \in Jobs /\ j \in asked /\ wcopy[w] # NoCopy /\ Active(w)
        /\ j \in Judged /\ applied[j] = 1
  BY <1>1, BusyWorker, PipelineConstants
  DEF PipelineAssumption, Active, SafeInv, JudgedOnce, AppliedOnce
<1>3. faults' \in 0..MaxFaults
  BY FaultsTyped DEF LogFeedback, SafeInv, PipeTypeOK
<1>4. f \in {-1, 0, 1}
  BY DEF Correction
<1>5. /\ wpc' \in [Workers -> WorkerPC] /\ wcopy' \in [Workers -> Copy \cup {NoCopy}]
      /\ \A v \in Workers : wcopy'[v] = NoCopy <=> wpc'[v] \in {"idle", "exited"}
      /\ OnlyWorker(w)
      /\ (wpc'[w] = "idle" /\ wcopy'[w] = NoCopy) \/ (wpc'[w] = "mark" /\ wcopy'[w] = wcopy[w])
      /\ OneCopy' /\ Queued' = Queued
      /\ \A k \in InHand : k = j \/ k \in InHand'
      /\ wres' \in [Workers -> Answer] /\ pending' \subseteq Write
      /\ \A x \in pending' :
           x \in pending \/ (x.op = "result" /\ x.id = j /\ x.status = "completed")
  <2>1. CASE o = "ok"
    <3>1. wpc' = [wpc EXCEPT ![w] = "mark"] /\ UNCHANGED <<pending, wcopy, wres>>
      BY <2>1 DEF LogFeedback
    <3>2. wcopy' = [wcopy EXCEPT ![w] = wcopy[w]]
      BY <3>1 DEF SafeInv, PipeTypeOK
    <3>3. "mark" \in WorkerPC
      BY DEF WorkerPC
    <3>4. /\ wpc' \in [Workers -> WorkerPC] /\ wcopy' \in [Workers -> Copy \cup {NoCopy}]
          /\ \A v \in Workers : wcopy'[v] = NoCopy <=> wpc'[v] \in {"idle", "exited"}
          /\ OnlyWorker(w) /\ wpc'[w] = "mark" /\ wcopy'[w] = wcopy[w]
          /\ OneCopy' /\ Queued' = Queued
          /\ \A k \in InHand : k = wcopy[w].id \/ k \in InHand'
      BY <1>1, <1>2, <3>1, <3>2, <3>3, WorkerMoves
    <3>5. wres' \in [Workers -> Answer] /\ pending' \subseteq Write
      BY <3>1 DEF SafeInv, PipeTypeOK
    <3> QED  BY <3>1, <3>4, <3>5
  <2>2. CASE o # "ok"
    <3>1. Finish(w, "completed")
      BY <2>2 DEF LogFeedback
    <3> QED  BY <1>1, <3>1, FinishMoves
  <2> QED  BY <2>1, <2>2
<1> HIDE DEF j, f
<1>6. rows \in [Jobs -> Row \cup {NoRow}]
  BY DEF SafeInv, PipeTypeOK
<1>7. /\ rows' \in [Jobs -> Row \cup {NoRow}]
      /\ \A k \in Jobs : rows'[k] = rows[k]
           \/ (k = j /\ rows[k] # NoRow /\ rows'[k] = [rows[k] EXCEPT !.feedback = f])
  <2>1. CASE rows' = rows
    BY <1>6, <2>1
  <2>2. CASE rows[j] # NoRow /\ rows' = [rows EXCEPT ![j].feedback = f]
    <3>1. rows[j] \in Row
      BY <1>2, <1>6, <2>2
    <3>2. PICK r \in Row : r = [rows[j] EXCEPT !.feedback = f]
      BY <1>4, <3>1 DEF Row
    <3>3. rows' = [rows EXCEPT ![j] = r]
      BY <2>2, <3>2
    <3> QED  BY <1>2, <1>6, <2>2, <3>2, <3>3
  <2> QED  BY <1>1, <2>1, <2>2
<1>8. PipeTypeOK'
  BY <1>1, <1>3, <1>5, <1>7 DEF SafeInv, PipeTypeOK
<1>9. UNCHANGED <<Judged, Buried>>
  BY <1>1 DEF Judged, Buried
<1>10. JudgedOnce'
  BY <1>1, <1>2, <1>5, <1>9 DEF SafeInv, JudgedOnce, OnlyWorker, j
<1>11. AppliedOnce'
  BY <1>1, <1>2, <1>5, <1>9 DEF SafeInv, AppliedOnce, OnlyWorker, j
<1>12. AttemptsCounted'
  <2>1. \A v \in Workers : wpc'[v] \in {"predict", "requeue", "store"} =>
                             wpc'[v] = wpc[v] /\ wcopy'[v] = wcopy[v]
    BY <1>5 DEF OnlyWorker
  <2> QED  BY <1>1, <1>9, <2>1 DEF SafeInv, AttemptsCounted
<1>13. PendingSound'
  BY <1>1, <1>2, <1>5, <1>9 DEF SafeInv, PendingSound
<1>14. AuditSound'
  <2>1. ASSUME NEW k \in Jobs, rows'[k] # rows[k]
        PROVE  /\ k = j /\ rows[k] # NoRow /\ rows'[k].status = rows[k].status
    <3>1. k = j /\ rows[k] # NoRow /\ rows'[k] = [rows[k] EXCEPT !.feedback = f]
      BY <1>7, <2>1
    <3>2. rows[k] \in Row
      BY <1>6, <3>1
    <3> QED  BY <3>1, <3>2 DEF Row
  <2>2. AuditSound
    BY DEF SafeInv
  <2> QED  BY <1>1, <1>2, <1>9, <2>1, <2>2 DEF AuditSound
<1>15. MarkedAfterApplied' /\ Accounted'
  BY <1>1, <1>2, <1>5, <1>9 DEF SafeInv, MarkedAfterApplied, Accounted
<1> QED  BY <1>5, <1>8, <1>10, <1>11, <1>12, <1>13, <1>14, <1>15 DEF SafeInv

LEMMA MarkFeedbackAppliedIsSafe ==
  ASSUME SafeInv, NEW w \in Workers, NEW o \in Outcome, MarkFeedbackApplied(w, o)
  PROVE  SafeInv'
<1> DEFINE j == wcopy[w].id
<1>1. /\ wpc[w] = "mark" /\ Finish(w, "completed")
      /\ marked' \in {marked, marked \cup {j}}
      /\ UNCHANGED <<asked, queue, dead, results, rows, auditOpen, stopping, attempts, applied,
                     hurt, crashes>>
  BY DEF MarkFeedbackApplied, historyVars
<1>2. j \in Jobs /\ j \in asked /\ j \in Judged /\ applied[j] = 1
  BY <1>1, BusyWorker DEF SafeInv, JudgedOnce, AppliedOnce
<1>3. faults' \in 0..MaxFaults
  BY FaultsTyped DEF MarkFeedbackApplied, SafeInv, PipeTypeOK
<1>4. /\ wpc' \in [Workers -> WorkerPC] /\ wcopy' \in [Workers -> Copy \cup {NoCopy}]
      /\ \A v \in Workers : wcopy'[v] = NoCopy <=> wpc'[v] \in {"idle", "exited"}
      /\ OnlyWorker(w) /\ wpc'[w] = "idle" /\ wcopy'[w] = NoCopy
      /\ OneCopy' /\ Queued' = Queued
      /\ \A k \in InHand : k = j \/ k \in InHand'
      /\ wres' \in [Workers -> Answer] /\ pending' \subseteq Write
      /\ \A x \in pending' :
           x \in pending \/ (x.op = "result" /\ x.id = j /\ x.status = "completed")
  BY <1>1, FinishMoves
<1> HIDE DEF j
<1>5. PipeTypeOK'
  <2>1. marked' \subseteq Jobs
    BY <1>1, <1>2 DEF SafeInv, PipeTypeOK
  <2> QED  BY <1>1, <1>3, <1>4, <2>1 DEF SafeInv, PipeTypeOK
<1>6. UNCHANGED <<Judged, Buried>>
  BY <1>1 DEF Judged, Buried
<1>7. JudgedOnce'
  BY <1>1, <1>4, <1>6 DEF SafeInv, JudgedOnce, OnlyWorker
<1>8. AppliedOnce'
  BY <1>1, <1>4, <1>6 DEF SafeInv, AppliedOnce, OnlyWorker
<1>9. AttemptsCounted'
  <2>1. \A v \in Workers : wpc'[v] \in {"predict", "requeue", "store"} =>
                             wpc'[v] = wpc[v] /\ wcopy'[v] = wcopy[v]
    BY <1>4 DEF OnlyWorker
  <2> QED  BY <1>1, <1>6, <2>1 DEF SafeInv, AttemptsCounted
<1>10. PendingSound'
  BY <1>1, <1>2, <1>4, <1>6 DEF SafeInv, PendingSound
<1>11. AuditSound' /\ MarkedAfterApplied' /\ Accounted'
  BY <1>1, <1>2, <1>4, <1>6 DEF SafeInv, AuditSound, MarkedAfterApplied, Accounted
<1> QED  BY <1>4, <1>5, <1>7, <1>8, <1>9, <1>10, <1>11 DEF SafeInv

LEMMA RunWriteIsSafe ==
  ASSUME SafeInv, NEW x \in pending, NEW o \in Outcome, RunWrite(x, o)
  PROVE  SafeInv'
<1> DEFINE j == x.id
           fresh == [status |-> "pending", feedback |-> 0]
<1>1. /\ pending' \subseteq pending /\ x \in Write
      /\ \/ rows' = rows
         \/ x.op = "enqueue" /\ rows[j] = NoRow /\ rows' = [rows EXCEPT ![j] = fresh]
         \/ x.op = "result" /\ rows[j] # NoRow /\ rows' = [rows EXCEPT ![j].status = x.status]
      /\ UNCHANGED <<asked, queue, dead, results, marked, auditOpen, stopping, wpc, wcopy, wres,
                     attempts, applied, hurt, crashes>>
  BY DEF RunWrite, SafeInv, PipeTypeOK, redisVars, workerVars, historyVars
<1>2. faults' \in 0..MaxFaults
  BY FaultsTyped DEF RunWrite, SafeInv, PipeTypeOK
<1>3. j \in Jobs /\ (x.op = "result" => x.status \in {"completed", "failed"})
  BY <1>1 DEF Write
<1>4. rows \in [Jobs -> Row \cup {NoRow}] /\ fresh \in Row
  BY DEF SafeInv, PipeTypeOK, Row
<1>5. fresh.status = "pending" /\ fresh.feedback = 0
  OBVIOUS
<1> HIDE DEF j, fresh
<1>6. /\ rows' \in [Jobs -> Row \cup {NoRow}]
      /\ \A k \in Jobs :
           \/ rows'[k] = rows[k]
           \/ rows'[k] = fresh
           \/ /\ k = j /\ x.op = "result" /\ rows[k] \in Row /\ rows[k] # NoRow
              /\ rows'[k] = [rows[k] EXCEPT !.status = x.status]
  <2>1. CASE rows' = rows
    BY <1>4, <2>1
  <2>2. CASE rows' = [rows EXCEPT ![j] = fresh]
    BY <1>3, <1>4, <2>2
  <2>3. CASE x.op = "result" /\ rows[j] # NoRow /\ rows' = [rows EXCEPT ![j].status = x.status]
    <3>1. rows[j] \in Row
      BY <1>3, <1>4, <2>3
    <3>2. PICK r \in Row : r = [rows[j] EXCEPT !.status = x.status]
      BY <1>3, <2>3, <3>1 DEF Row
    <3>3. rows' = [rows EXCEPT ![j] = r]
      BY <2>3, <3>2
    <3> QED  BY <1>3, <1>4, <2>3, <3>1, <3>2, <3>3
  <2> QED  BY <1>1, <2>1, <2>2, <2>3
<1>7. PipeTypeOK'
  BY <1>1, <1>2, <1>6 DEF SafeInv, PipeTypeOK
<1>8. UNCHANGED <<Queued, Judged, Buried, InHand>>
  BY <1>1 DEF Queued, Judged, Buried, InHand
<1>9. OneCopy'
  BY <1>1, <1>8 DEF SafeInv, OneCopy, Active
<1>10. JudgedOnce' /\ AppliedOnce'
  BY <1>1, <1>8 DEF SafeInv, JudgedOnce, AppliedOnce
<1>11. AttemptsCounted'
  BY <1>1, <1>8 DEF SafeInv, AttemptsCounted
<1>12. PendingSound'
  BY <1>1, <1>8 DEF SafeInv, PendingSound
<1>13. AuditSound'
  <2> SUFFICES ASSUME NEW k \in Jobs, rows'[k] # NoRow
               PROVE  /\ rows'[k].status = "completed" => k \in Judged
                      /\ rows'[k].status = "failed" => k \in Buried \cup hurt
                      /\ rows'[k].feedback # 0 => applied[k] > 0
    BY <1>1, <1>8 DEF AuditSound
  <2>1. CASE rows'[k] = rows[k]
    BY <2>1 DEF SafeInv, AuditSound
  <2>2. CASE rows'[k] = fresh
    BY <1>5, <2>2
  <2>3. CASE /\ k = j /\ x.op = "result" /\ rows[k] \in Row /\ rows[k] # NoRow
             /\ rows'[k] = [rows[k] EXCEPT !.status = x.status]
    <3>1. rows'[k].status = x.status /\ rows'[k].feedback = rows[k].feedback
      BY <2>3 DEF Row
    <3>2. rows[k].feedback # 0 => applied[k] > 0
      BY <2>3 DEF SafeInv, AuditSound
    <3>3. /\ x.status = "completed" => k \in Judged
          /\ x.status = "failed" => k \in Buried \cup hurt
      BY <2>3 DEF SafeInv, PendingSound, j
    <3> QED  BY <3>1, <3>2, <3>3
  <2> QED  BY <1>6, <2>1, <2>2, <2>3
<1>14. MarkedAfterApplied' /\ Accounted'
  BY <1>1, <1>8 DEF SafeInv, MarkedAfterApplied, Accounted
<1> QED  BY <1>7, <1>9, <1>10, <1>11, <1>12, <1>13, <1>14 DEF SafeInv

LEMMA StopIsSafe == SafeInv /\ (Stop \/ CloseAudit) => SafeInv'
<1> SUFFICES ASSUME SafeInv, Stop \/ CloseAudit PROVE SafeInv'
  OBVIOUS
<1>1. /\ auditOpen' \in BOOLEAN /\ stopping' \in BOOLEAN
      /\ UNCHANGED <<asked, queue, dead, results, marked, rows, pending, wpc, wcopy, wres,
                     attempts, applied, hurt, faults, crashes>>
  BY DEF Stop, CloseAudit, SafeInv, PipeTypeOK, redisVars, auditVars, workerVars, historyVars
<1>2. UNCHANGED <<Queued, Judged, Buried, InHand>>
  BY <1>1 DEF Queued, Judged, Buried, InHand
<1>3. PipeTypeOK' /\ OneCopy' /\ JudgedOnce' /\ AppliedOnce' /\ AttemptsCounted'
  <2>1. PipeTypeOK'
    BY <1>1 DEF SafeInv, PipeTypeOK
  <2>2. OneCopy'
    BY <1>1, <1>2 DEF SafeInv, OneCopy, Active
  <2>3. JudgedOnce' /\ AppliedOnce' /\ AttemptsCounted'
    BY <1>1, <1>2 DEF SafeInv, JudgedOnce, AppliedOnce, AttemptsCounted
  <2> QED  BY <2>1, <2>2, <2>3
<1>4. MarkedAfterApplied' /\ PendingSound' /\ AuditSound' /\ Accounted'
  BY <1>1, <1>2 DEF SafeInv, MarkedAfterApplied, PendingSound, AuditSound, Accounted
<1> QED  BY <1>3, <1>4 DEF SafeInv

LEMMA ExitIsSafe ==
  ASSUME SafeInv, NEW w \in Workers, Exit(w)
  PROVE  SafeInv'
<1>1. /\ wpc[w] = "idle" /\ wpc' = [wpc EXCEPT ![w] = "exited"]
      /\ UNCHANGED <<asked, queue, dead, results, marked, rows, auditOpen, pending, stopping,
                     wcopy, wres, attempts, applied, hurt, faults, crashes>>
  BY DEF Exit, redisVars, auditVars, historyVars
<1>2. /\ wpc' \in [Workers -> WorkerPC]
      /\ \A v \in Workers : wcopy'[v] = NoCopy <=> wpc'[v] \in {"idle", "exited"}
      /\ OnlyWorker(w) /\ wpc'[w] = "exited"
      /\ OneCopy'
  <2>1. wcopy[w] = NoCopy /\ wcopy' = [wcopy EXCEPT ![w] = NoCopy] /\ "exited" \in WorkerPC
    BY <1>1 DEF SafeInv, PipeTypeOK, WorkerPC
  <2> QED  BY <1>1, <2>1, WorkerMoves
<1>3. PipeTypeOK'
  BY <1>1, <1>2 DEF SafeInv, PipeTypeOK
<1>4. UNCHANGED <<Queued, Judged, Buried, InHand>>
  <2>1. UNCHANGED <<Queued, Judged, Buried>>
    BY <1>1 DEF Queued, Judged, Buried
  <2>2. \A v \in Workers : /\ wcopy'[v] = wcopy[v]
                           /\ wpc[v] \in {"predict", "requeue", "deadletter", "store"}
                              <=> wpc'[v] \in {"predict", "requeue", "deadletter", "store"}
    BY <1>1, <1>2 DEF OnlyWorker
  <2> QED  BY <2>1, <2>2 DEF InHand
<1>5. JudgedOnce' /\ AppliedOnce' /\ AttemptsCounted'
  <2>1. JudgedOnce'
    BY <1>1, <1>2, <1>4 DEF SafeInv, JudgedOnce, OnlyWorker
  <2>2. AppliedOnce'
    BY <1>1, <1>2, <1>4 DEF SafeInv, AppliedOnce, OnlyWorker
  <2>3. AttemptsCounted'
    BY <1>1, <1>2, <1>4 DEF SafeInv, AttemptsCounted, OnlyWorker
  <2> QED  BY <2>1, <2>2, <2>3
<1>6. MarkedAfterApplied' /\ PendingSound' /\ AuditSound' /\ Accounted'
  BY <1>1, <1>4 DEF SafeInv, MarkedAfterApplied, PendingSound, AuditSound, Accounted
<1> QED  BY <1>2, <1>3, <1>5, <1>6 DEF SafeInv

LEMMA RestartIsSafe == SafeInv /\ Restart => SafeInv'
<1> SUFFICES ASSUME SafeInv, Restart PROVE SafeInv'
  OBVIOUS
<1>1. /\ crashes < MaxCrashes /\ crashes' = crashes + 1 /\ hurt' = hurt \cup InHand
      /\ pending' = {} /\ auditOpen' = TRUE /\ stopping' = FALSE
      /\ \A w \in Workers : wpc'[w] = "idle" /\ wcopy'[w] = NoCopy
      /\ UNCHANGED <<asked, queue, dead, results, marked, rows, attempts, applied, faults>>
  BY DEF Restart, redisVars
<1>2. PipeTypeOK'
  <2>1. /\ wpc' \in [Workers -> WorkerPC] /\ wcopy' \in [Workers -> Copy \cup {NoCopy}]
        /\ wres' \in [Workers -> Answer]
    BY DEF Restart, WorkerPC, NoAnswer, Answer
  <2>2. crashes' \in 0..MaxCrashes
    BY <1>1, PipelineConstants DEF PipelineAssumption, SafeInv, PipeTypeOK
  <2>3. hurt' \subseteq Jobs
    <3>1. \A w \in Workers : wpc[w] \notin {"idle", "exited"} => wcopy[w].id \in Jobs
      BY BusyWorker
    <3>2. InHand \subseteq Jobs
      BY <3>1 DEF InHand
    <3> QED  BY <1>1, <3>2 DEF SafeInv, PipeTypeOK
  <2> QED  BY <1>1, <2>1, <2>2, <2>3 DEF SafeInv, PipeTypeOK
<1>3. UNCHANGED <<Queued, Judged, Buried>> /\ InHand' = {} /\ \A w \in Workers : ~Active(w)'
  <2>1. UNCHANGED <<Queued, Judged, Buried>>
    BY <1>1 DEF Queued, Judged, Buried
  <2>2. InHand' = {} /\ \A w \in Workers : ~Active(w)'
    BY <1>1 DEF InHand, Active
  <2> QED  BY <2>1, <2>2
<1>4. OneCopy'
  BY <1>1, <1>3 DEF SafeInv, OneCopy
<1>5. JudgedOnce' /\ AppliedOnce' /\ AttemptsCounted'
  BY <1>1, <1>3 DEF SafeInv, JudgedOnce, AppliedOnce, AttemptsCounted
<1>6. MarkedAfterApplied' /\ PendingSound' /\ AuditSound' /\ Accounted'
  BY <1>1, <1>3 DEF SafeInv, MarkedAfterApplied, PendingSound, AuditSound, Accounted
<1> QED  BY <1>2, <1>4, <1>5, <1>6 DEF SafeInv

-----------------------------------------------------------------------------
(* The theorems.                                                           *)

LEMMA NextIsSafe == SafeInv /\ [Next]_pipeVars => SafeInv'
<1> SUFFICES ASSUME SafeInv, [Next]_pipeVars PROVE SafeInv'
  OBVIOUS
<1>1. CASE \E j \in Jobs, o \in Outcome : Enqueue(j, o)
  BY <1>1, EnqueueIsSafe
<1>2. ASSUME NEW w \in Workers, WorkerStep(w) PROVE SafeInv'
  <2>1. CASE \E a \in Answer : PredictAnswers(w, a)
    BY <2>1, PredictAnswersIsSafe
  <2>2. CASE PredictFails(w)
    BY <2>2, PredictFailsIsSafe
  <2>3. ASSUME NEW o \in Outcome, Dequeue(w, o) \/ Requeue(w, o) PROVE SafeInv'
    BY <2>3, DequeueIsSafe, RequeueIsSafe
  <2>4. ASSUME NEW o \in Outcome, MoveToFailed(w, o) \/ StoreResult(w, o) PROVE SafeInv'
    BY <2>4, MoveToFailedIsSafe, StoreResultIsSafe
  <2>5. ASSUME NEW o \in Outcome, LogFeedback(w, o) \/ MarkFeedbackApplied(w, o)
        PROVE  SafeInv'
    BY <2>5, LogFeedbackIsSafe, MarkFeedbackAppliedIsSafe
  <2>6. CASE ApplyFeedback(w)
    BY <2>6, ApplyFeedbackIsSafe
  <2>7. CASE Exit(w)
    BY <2>7, ExitIsSafe
  <2> QED  BY <1>2, <2>1, <2>2, <2>3, <2>4, <2>5, <2>6, <2>7 DEF WorkerStep
<1>3. CASE \E x \in pending, o \in Outcome : RunWrite(x, o)
  BY <1>3, RunWriteIsSafe
<1>4. CASE Stop \/ CloseAudit
  BY <1>4, StopIsSafe
<1>5. CASE Restart
  BY <1>5, RestartIsSafe
<1>6. CASE UNCHANGED pipeVars
  <2>1. UNCHANGED <<asked, queue, dead, results, marked, rows, auditOpen, pending, stopping,
                    wpc, wcopy, wres, attempts, applied, hurt, faults, crashes>>
    BY <1>6 DEF pipeVars, redisVars, auditVars, workerVars, historyVars
  <2>2. UNCHANGED <<Queued, Judged, Buried, InHand>>
    BY <2>1 DEF Queued, Judged, Buried, InHand
  <2>3. PipeTypeOK' /\ OneCopy'
    BY <2>1, <2>2 DEF SafeInv, PipeTypeOK, OneCopy, Active
  <2>4. JudgedOnce' /\ AppliedOnce' /\ AttemptsCounted'
    BY <2>1, <2>2 DEF SafeInv, JudgedOnce, AppliedOnce, AttemptsCounted
  <2>5. MarkedAfterApplied' /\ PendingSound' /\ AuditSound' /\ Accounted'
    BY <2>1, <2>2 DEF SafeInv, MarkedAfterApplied, PendingSound, AuditSound, Accounted
  <2> QED  BY <2>3, <2>4, <2>5 DEF SafeInv
<1> QED  BY <1>1, <1>2, <1>3, <1>4, <1>5, <1>6 DEF Next

\* The pipeline keeps the inductive invariant: a job has one copy that can
\* still be attempted, and its retry counter counts every attempt.
THEOREM PipelineIsSafe == Spec => []SafeInv
BY InitIsSafe, NextIsSafe, PTL DEF Spec

\* Every variable keeps its type (Redis lists and hashes, SQLite rows, worker state).
THEOREM PipelineTypes == Spec => []PipeTypeOK
BY PipelineIsSafe, PTL DEF SafeInv

\* No accepted job vanishes except through a crash or a failed call.
THEOREM NoJobVanishes == Spec => []Accounted
BY PipelineIsSafe, PTL DEF SafeInv

\* The audit table never says more than what happened, whatever the order in
\* which its goroutines run.
THEOREM AuditIsSound == Spec => []AuditSound
BY PipelineIsSafe, PTL DEF SafeInv

\* feedback_applied implies the profile was corrected, exactly once.
THEOREM MarkIsTruthful == Spec => []MarkedAfterApplied
BY PipelineIsSafe, PTL DEF SafeInv

-----------------------------------------------------------------------------
(* The pipeline implements Tier1Review.                                    *)

LEMMA InitRefines == Init => Review!Init
<1> SUFFICES ASSUME Init PROVE Review!Init
  OBVIOUS
<1>1. Live = {} /\ Judged = {} /\ Buried = {} /\ Corrected = {}
  BY DEF Init, Live, Queued, InHand, Judged, Buried, Corrected
<1> QED  BY <1>1 DEF Init, Review!Init

\* A submitted job is all a queue or a hand can hold.
LEMMA LiveAreAsked == SafeInv => Live \subseteq asked /\ asked \subseteq Jobs
<1> SUFFICES ASSUME SafeInv PROVE Live \subseteq asked /\ asked \subseteq Jobs
  OBVIOUS
<1>1. \A w \in Workers : wpc[w] \notin {"idle", "exited"} => wcopy[w].id \in asked
  BY BusyWorker
<1>2. InHand \subseteq asked
  BY <1>1 DEF InHand
<1> QED  BY <1>2 DEF SafeInv, OneCopy, PipeTypeOK, Live

\* Jobs leave the queue and the hands, and nothing else happens to them.
LEMMA LoseStep ==
  ASSUME SafeInv, Live' \subseteq Live, UNCHANGED <<attempts, Judged, Buried, Corrected>>
  PROVE  Review!Next
<1>1. Live' = Live \ (Live \ Live') /\ (Live \ Live') \in SUBSET Jobs
  BY LiveAreAsked
<1>2. Review!Lose(Live \ Live')
  BY <1>1 DEF Review!Lose
<1> QED  BY <1>1, <1>2 DEF Review!Next

\* A worker's step keeps the hands as they were, or drops its own job.
LEMMA HandsKept ==
  ASSUME NEW w \in Workers, OnlyWorker(w),
         wpc'[w] \in {"predict", "requeue", "deadletter", "store"} =>
            /\ wpc[w] \in {"predict", "requeue", "deadletter", "store"}
            /\ wcopy'[w].id = wcopy[w].id
  PROVE  InHand' \subseteq InHand /\ \A k \in InHand : k = wcopy[w].id \/ k \in InHand'
<1>1. ASSUME NEW k \in InHand' PROVE k \in InHand
  <2>1. PICK v \in Workers : wpc'[v] \in {"predict", "requeue", "deadletter", "store"}
                               /\ k = wcopy'[v].id
    BY DEF InHand
  <2>2. wpc[v] \in {"predict", "requeue", "deadletter", "store"} /\ wcopy'[v].id = wcopy[v].id
    BY <2>1 DEF OnlyWorker
  <2> QED  BY <2>1, <2>2 DEF InHand
<1>2. ASSUME NEW k \in InHand, k # wcopy[w].id PROVE k \in InHand'
  <2>1. PICK v \in Workers : wpc[v] \in {"predict", "requeue", "deadletter", "store"}
                               /\ k = wcopy[v].id
    BY DEF InHand
  <2>2. wpc'[v] = wpc[v] /\ wcopy'[v] = wcopy[v]
    BY <1>2, <2>1 DEF OnlyWorker
  <2> QED  BY <2>1, <2>2 DEF InHand
<1> QED  BY <1>1, <1>2

LEMMA EnqueueRefines ==
  ASSUME SafeInv, NEW j \in Jobs, NEW o \in Outcome, Enqueue(j, o)
  PROVE  Review!Next
<1> DEFINE c == [id |-> j, retries |-> 0]
<1>1. /\ j \notin asked
      /\ queue' \in {queue, Append(queue, c)}
      /\ UNCHANGED <<dead, results, wpc, wcopy, attempts, applied>>
  BY DEF Enqueue, workerVars
<1>2. c \in Copy /\ c.id = j /\ queue \in Seq(Copy)
  BY DEF Copy, SafeInv, PipeTypeOK
<1> HIDE DEF c
<1>3. UNCHANGED <<attempts, Judged, Buried, Corrected, InHand>>
  BY <1>1 DEF Judged, Buried, Corrected, InHand
<1>4. CASE queue' = queue
  <2>1. Queued' = Queued
    BY <1>4 DEF Queued
  <2> QED  BY <1>3, <2>1, LoseStep DEF Live
<1>5. CASE queue' = Append(queue, c)
  <2>1. Queued' = Queued \cup {j}
    <3>1. /\ DOMAIN queue' = DOMAIN queue \cup {Len(queue) + 1}
          /\ queue'[Len(queue) + 1] = c
          /\ \A i \in DOMAIN queue : queue'[i] = queue[i]
      BY <1>2, <1>5, PushedQueue
    <3> QED  BY <1>2, <3>1 DEF Queued
  <2>2. Live' = Live \cup {j}
    BY <1>3, <2>1 DEF Live
  <2>3. j \notin Live \cup Judged \cup Buried /\ attempts[j] = 0
    BY <1>1, LiveAreAsked DEF SafeInv, JudgedOnce, AttemptsCounted
  <2>4. Review!Accept(j)
    BY <1>3, <2>2, <2>3 DEF Review!Accept
  <2> QED  BY <2>4 DEF Review!Next
<1> QED  BY <1>1, <1>4, <1>5

LEMMA DequeueRefines ==
  ASSUME SafeInv, NEW w \in Workers, NEW o \in Outcome, Dequeue(w, o)
  PROVE  Review!Next
<1>1. /\ wpc[w] = "idle" /\ queue # <<>> /\ queue \in Seq(Copy) /\ queue' = Tail(queue)
      /\ OnlyWorker(w)
      /\ \/ wpc'[w] = "predict" /\ wcopy'[w] = Head(queue)
         \/ wpc'[w] = "idle"
      /\ UNCHANGED <<dead, results, attempts, applied>>
  BY DEF Dequeue, SafeInv, PipeTypeOK, OnlyWorker
<1>2. UNCHANGED <<attempts, Judged, Buried, Corrected>>
  BY <1>1 DEF Judged, Buried, Corrected
<1>3. Queued' \subseteq Queued /\ Head(queue).id \in Queued
  BY <1>1, PoppedQueue DEF Queued
<1>4. ASSUME NEW k \in InHand' PROVE k \in Live
  <2>1. PICK v \in Workers : wpc'[v] \in {"predict", "requeue", "deadletter", "store"}
                               /\ k = wcopy'[v].id
    BY DEF InHand
  <2>2. CASE v = w
    <3>1. k = Head(queue).id
      BY <1>1, <2>1, <2>2
    <3> QED  BY <1>3, <3>1 DEF Live
  <2>3. CASE v # w
    <3>1. wpc'[v] = wpc[v] /\ wcopy'[v] = wcopy[v]
      BY <1>1, <2>3 DEF OnlyWorker
    <3> QED  BY <2>1, <3>1 DEF Live, InHand
  <2> QED  BY <2>2, <2>3
<1>5. Live' \subseteq Live
  BY <1>3, <1>4 DEF Live
<1> QED  BY <1>2, <1>5, LoseStep

LEMMA PredictRefines ==
  ASSUME SafeInv, NEW w \in Workers,
         PredictFails(w) \/ \E a \in Answer : PredictAnswers(w, a)
  PROVE  Review!Next
<1> DEFINE j == wcopy[w].id
<1>1. /\ wpc[w] = "predict" /\ attempts' = [attempts EXCEPT ![j] = @ + 1]
      /\ UNCHANGED <<queue, dead, results, applied>>
  BY DEF PredictFails, PredictAnswers, Called, redisVars
<1>2. wcopy[w] \in Copy /\ j \in Jobs /\ wcopy[w].retries \in Nat
  BY <1>1, BusyWorker
<1>3. /\ OnlyWorker(w) /\ wcopy'[w].id = j
      /\ wpc'[w] \in {"requeue", "deadletter", "store"}
  <2>1. CASE PredictFails(w)
    <3> DEFINE c == [wcopy[w] EXCEPT !.retries = @ + 1]
    <3>1. c.id = j /\ wcopy' = [wcopy EXCEPT ![w] = c]
      BY <1>2, <2>1 DEF PredictFails, Copy
    <3> HIDE DEF c
    <3>2. wcopy'[w] = c /\ \A v \in Workers \ {w} : wcopy'[v] = wcopy[v]
      BY <3>1 DEF SafeInv, PipeTypeOK
    <3>3. /\ wpc'[w] \in {"requeue", "deadletter", "store"}
          /\ \A v \in Workers \ {w} : wpc'[v] = wpc[v]
      BY <2>1 DEF PredictFails, SafeInv, PipeTypeOK
    <3> QED  BY <3>1, <3>2, <3>3 DEF OnlyWorker
  <2>2. CASE \E a \in Answer : PredictAnswers(w, a)
    BY <2>2 DEF PredictAnswers, OnlyWorker, SafeInv, PipeTypeOK
  <2> QED  BY <2>1, <2>2
<1>4. j \in InHand /\ j \notin Judged
  BY <1>1 DEF InHand, SafeInv, JudgedOnce
<1>5. attempts[j] < AttemptLimit
  BY <1>1, <1>2, LimitFacts DEF SafeInv, PipeTypeOK, AttemptsCounted
<1> HIDE DEF j
<1>6. Live' = Live
  <2>1. InHand' \subseteq InHand /\ \A k \in InHand : k = j \/ k \in InHand'
    BY <1>1, <1>3, HandsKept DEF j
  <2>2. j \in InHand'
    BY <1>3 DEF InHand
  <2>3. Queued' = Queued
    BY <1>1 DEF Queued
  <2> QED  BY <2>1, <2>2, <2>3 DEF Live
<1>7. UNCHANGED <<Judged, Buried, Corrected>>
  BY <1>1 DEF Judged, Buried, Corrected
<1>8. Review!Attempt(j)
  BY <1>1, <1>4, <1>5, <1>6, <1>7 DEF Review!Attempt, Live
<1> QED  BY <1>2, <1>8 DEF Review!Next

LEMMA RequeueRefines ==
  ASSUME SafeInv, NEW w \in Workers, NEW o \in Outcome, Requeue(w, o)
  PROVE  Review!Next
<1> DEFINE j == wcopy[w].id
<1>1. /\ wpc[w] = "requeue" /\ OnlyWorker(w)
      /\ wpc'[w] = "idle" \/ (wpc'[w] = "deadletter" /\ wcopy'[w] = wcopy[w])
      /\ queue' \in {queue, Append(queue, wcopy[w])}
      /\ UNCHANGED <<dead, results, attempts, applied>>
  BY DEF Requeue, SafeInv, PipeTypeOK, OnlyWorker, historyVars
<1>2. wcopy[w] \in Copy /\ queue \in Seq(Copy)
  BY <1>1, BusyWorker DEF SafeInv, PipeTypeOK
<1>3. InHand' \subseteq InHand /\ j \in InHand
  <2>1. InHand' \subseteq InHand
    BY <1>1, HandsKept
  <2> QED  BY <1>1, <2>1 DEF InHand
<1>4. Queued' \subseteq Queued \cup {j}
  <2>1. \A i \in DOMAIN queue' : (i \in DOMAIN queue /\ queue'[i] = queue[i])
                                 \/ queue'[i] = wcopy[w]
    BY <1>1, <1>2, PushedQueue
  <2> QED  BY <2>1 DEF Queued
<1>5. Live' \subseteq Live
  BY <1>3, <1>4 DEF Live
<1>6. UNCHANGED <<attempts, Judged, Buried, Corrected>>
  BY <1>1 DEF Judged, Buried, Corrected
<1> QED  BY <1>5, <1>6, LoseStep

LEMMA MoveToFailedRefines ==
  ASSUME SafeInv, NEW w \in Workers, NEW o \in Outcome, MoveToFailed(w, o)
  PROVE  Review!Next
<1> DEFINE j == wcopy[w].id
<1>1. /\ wpc[w] = "deadletter" /\ OnlyWorker(w) /\ wpc'[w] = "idle"
      /\ dead' \in {dead, dead \cup {wcopy[w]}}
      /\ UNCHANGED <<queue, results, attempts, applied>>
  BY DEF MoveToFailed, Finish, SafeInv, PipeTypeOK, OnlyWorker
<1>2. j \in Jobs /\ j \in Live
  BY <1>1, BusyWorker DEF Live, InHand
<1>3. UNCHANGED <<Judged, Corrected, Queued>> /\ Buried' \in {Buried, Buried \cup {j}}
  <2>1. UNCHANGED <<Judged, Corrected, Queued>>
    BY <1>1 DEF Judged, Corrected, Queued
  <2>2. CASE dead' = dead
    BY <2>1, <2>2 DEF Buried
  <2>3. CASE dead' = dead \cup {wcopy[w]}
    <3>1. Buried' = Buried \cup {j}
      BY <2>3 DEF Buried
    <3> QED  BY <2>1, <3>1
  <2> QED  BY <1>1, <2>2, <2>3
<1>4. InHand' \subseteq InHand /\ \A k \in InHand : k = j \/ k \in InHand'
  BY <1>1, HandsKept
<1> HIDE DEF j
<1>5. Live' \in {Live, Live \ {j}}
  BY <1>3, <1>4 DEF Live
<1>6. CASE Buried' = Buried
  BY <1>1, <1>3, <1>5, <1>6, LoseStep
<1>7. CASE Buried' = Buried \cup {j}
  <2>1. Review!GiveUp(j)
    BY <1>1, <1>2, <1>3, <1>5, <1>7 DEF Review!GiveUp, Review!Released
  <2> QED  BY <1>2, <2>1 DEF Review!Next
<1> QED  BY <1>3, <1>6, <1>7

LEMMA StoreResultRefines ==
  ASSUME SafeInv, NEW w \in Workers, NEW o \in Outcome, StoreResult(w, o)
  PROVE  Review!Next
<1> DEFINE j == wcopy[w].id
<1>1. /\ wpc[w] = "store" /\ OnlyWorker(w) /\ wpc'[w] \in {"idle", "feedback"}
      /\ results' = [results EXCEPT ![j] = IF Effect(o) THEN "stored" ELSE "unstored"]
      /\ UNCHANGED <<queue, dead, attempts, applied>>
  BY DEF StoreResult, Finish, SafeInv, PipeTypeOK, OnlyWorker, historyVars
<1>2. /\ j \in Jobs /\ j \in Live /\ j \notin Judged /\ attempts[j] > 0
  BY <1>1, BusyWorker DEF Live, InHand, SafeInv, JudgedOnce, AttemptsCounted
<1>3. UNCHANGED <<Buried, Corrected, Queued>> /\ Judged' = Judged \cup {j}
  <2>1. UNCHANGED <<Buried, Corrected, Queued>>
    BY <1>1 DEF Buried, Corrected, Queued
  <2>2. results \in [Jobs -> {"none", "stored", "unstored"}]
    BY DEF SafeInv, PipeTypeOK
  <2>3. results'[j] # "none" /\ \A k \in Jobs : k # j => results'[k] = results[k]
    BY <1>1, <1>2, <2>2
  <2>4. Judged' = Judged \cup {j}
    BY <1>2, <2>3 DEF Judged
  <2> QED  BY <2>1, <2>4
<1>4. InHand' \subseteq InHand /\ \A k \in InHand : k = j \/ k \in InHand'
  BY <1>1, HandsKept
<1> HIDE DEF j
<1>5. Live' \in {Live, Live \ {j}}
  BY <1>3, <1>4 DEF Live
<1>6. Review!Judge(j)
  BY <1>1, <1>2, <1>3, <1>5 DEF Review!Judge, Review!Released
<1> QED  BY <1>2, <1>6 DEF Review!Next

LEMMA ApplyFeedbackRefines ==
  ASSUME SafeInv, NEW w \in Workers, ApplyFeedback(w)
  PROVE  Review!Next
<1> DEFINE j == wcopy[w].id
<1>1. /\ wpc[w] = "feedback" /\ OnlyWorker(w) /\ wpc'[w] \in {"idle", "logfeedback"}
      /\ applied' = applied \/ applied' = [applied EXCEPT ![j] = @ + 1]
      /\ UNCHANGED <<queue, dead, results, attempts>>
  BY DEF ApplyFeedback, Finish, SafeInv, PipeTypeOK, OnlyWorker, redisVars
<1>2. j \in Jobs /\ j \in Judged /\ applied[j] = 0
  BY <1>1, BusyWorker DEF SafeInv, JudgedOnce, AppliedOnce
<1>3. UNCHANGED <<Judged, Buried, Queued>>
  BY <1>1 DEF Judged, Buried, Queued
<1>4. Live' = Live
  <2>1. j \notin InHand \/ \E v \in Workers : v # w /\ wcopy[v].id = j
          /\ wpc[v] \in {"predict", "requeue", "deadletter", "store"}
    BY <1>1 DEF InHand
  <2>2. InHand' \subseteq InHand /\ \A k \in InHand : k = j \/ k \in InHand'
    BY <1>1, HandsKept
  <2>3. j \in InHand => j \in InHand'
    BY <1>1, <2>1 DEF InHand, OnlyWorker
  <2> QED  BY <1>3, <2>2, <2>3 DEF Live
<1> HIDE DEF j
<1>5. CASE applied' = applied
  <2>1. Corrected' = Corrected
    BY <1>5 DEF Corrected
  <2> QED  BY <1>1, <1>3, <1>4, <2>1, LoseStep
<1>6. CASE applied' = [applied EXCEPT ![j] = @ + 1]
  <2>1. applied'[j] = 1 /\ \A k \in Jobs : k # j => applied'[k] = applied[k]
    BY <1>2, <1>6 DEF SafeInv, PipeTypeOK
  <2>2. Corrected' = Corrected \cup {j} /\ j \notin Corrected
    BY <1>2, <2>1 DEF Corrected
  <2>3. Review!Correct(j)
    BY <1>1, <1>2, <1>3, <1>4, <2>2 DEF Review!Correct
  <2> QED  BY <1>2, <2>3 DEF Review!Next
<1> QED  BY <1>1, <1>5, <1>6

\* The other steps judge, attempt, bury and correct nothing.
LEMMA QuietStepsRefine ==
  ASSUME SafeInv,
         \/ \E w \in Workers, o \in Outcome : LogFeedback(w, o) \/ MarkFeedbackApplied(w, o)
         \/ \E w \in Workers : Exit(w)
         \/ \E x \in pending, o \in Outcome : RunWrite(x, o)
         \/ Stop \/ CloseAudit \/ Restart \/ UNCHANGED pipeVars
  PROVE  Review!Next
<1>1. UNCHANGED <<queue, dead, results, attempts, applied>>
  BY DEF LogFeedback, MarkFeedbackApplied, Exit, RunWrite, Stop, CloseAudit, Restart, pipeVars,
         redisVars, historyVars
<1>2. UNCHANGED <<attempts, Judged, Buried, Corrected, Queued>>
  BY <1>1 DEF Judged, Buried, Corrected, Queued
<1>3. InHand' \subseteq InHand
  <2>1. ASSUME NEW w \in Workers, NEW o \in Outcome,
               LogFeedback(w, o) \/ MarkFeedbackApplied(w, o) \/ Exit(w)
        PROVE  InHand' \subseteq InHand
    <3>1. OnlyWorker(w) /\ wpc'[w] \in {"idle", "mark", "exited"}
      BY <2>1 DEF LogFeedback, MarkFeedbackApplied, Exit, Finish, OnlyWorker, SafeInv, PipeTypeOK
    <3> QED  BY <3>1, HandsKept
  <2>2. CASE Restart
    <3>1. \A w \in Workers : wpc'[w] = "idle"
      BY <2>2 DEF Restart
    <3> QED  BY <3>1 DEF InHand
  <2>3. CASE \/ \E x \in pending, o \in Outcome : RunWrite(x, o)
             \/ Stop \/ CloseAudit \/ UNCHANGED pipeVars
    <3>1. UNCHANGED <<wpc, wcopy>>
      BY <2>3 DEF RunWrite, Stop, CloseAudit, pipeVars, workerVars
    <3> QED  BY <3>1 DEF InHand
  <2>4. "ok" \in Outcome
    BY DEF Outcome
  <2> QED  BY <2>1, <2>2, <2>3, <2>4
<1>4. Live' \subseteq Live
  BY <1>2, <1>3 DEF Live
<1> QED  BY <1>2, <1>4, LoseStep

LEMMA NextRefines == SafeInv /\ [Next]_pipeVars => [Review!Next]_Review!revVars
<1> SUFFICES ASSUME SafeInv, [Next]_pipeVars PROVE Review!Next
  OBVIOUS
<1>1. CASE \E j \in Jobs, o \in Outcome : Enqueue(j, o)
  BY <1>1, EnqueueRefines
<1>2. ASSUME NEW w \in Workers, WorkerStep(w) PROVE Review!Next
  <2>1. CASE PredictFails(w) \/ \E a \in Answer : PredictAnswers(w, a)
    BY <2>1, PredictRefines
  <2>2. ASSUME NEW o \in Outcome, Dequeue(w, o) \/ Requeue(w, o) PROVE Review!Next
    BY <2>2, DequeueRefines, RequeueRefines
  <2>3. ASSUME NEW o \in Outcome, MoveToFailed(w, o) \/ StoreResult(w, o) PROVE Review!Next
    BY <2>3, MoveToFailedRefines, StoreResultRefines
  <2>4. CASE ApplyFeedback(w)
    BY <2>4, ApplyFeedbackRefines
  <2>5. ASSUME NEW o \in Outcome, LogFeedback(w, o) \/ MarkFeedbackApplied(w, o)
        PROVE  Review!Next
    BY <2>5, QuietStepsRefine
  <2>6. CASE Exit(w)
    BY <2>6, QuietStepsRefine
  <2> QED  BY <1>2, <2>1, <2>2, <2>3, <2>4, <2>5, <2>6 DEF WorkerStep
<1>3. CASE \/ \E x \in pending, o \in Outcome : RunWrite(x, o)
           \/ Stop \/ CloseAudit \/ Restart \/ UNCHANGED pipeVars
  BY <1>3, QuietStepsRefine
<1> QED  BY <1>1, <1>2, <1>3 DEF Next

\* The pipeline, with its queues, workers, faults and crashes, does only what
\* Tier1Review allows: at most AttemptLimit calls of the model per job, one
\* judgement, no attempt after it, one correction.
THEOREM PipelineRefinesReview == Spec => RefinesReview
BY InitRefines, NextRefines, PipelineIsSafe, PTL DEF Spec, Review!Spec, RefinesReview

-----------------------------------------------------------------------------
(* A worker's job is short: what the liveness properties EveryJobSettles   *)
(* and StopTerminates rest on besides fairness.                            *)

\* How many steps worker w has left at most before it has exited, unless it takes
\* another job.
StepsLeft(w) ==
  CASE wpc[w] = "exited" -> 0
    [] wpc[w] = "idle" -> 1
    [] wpc[w] \in {"deadletter", "mark"} -> 2
    [] wpc[w] \in {"requeue", "logfeedback"} -> 3
    [] wpc[w] = "feedback" -> 4
    [] wpc[w] = "store" -> 5
    [] wpc[w] = "predict" -> 6

\* A step of worker w brings it nearer to its exit, whatever fails, unless it waits at
\* the queue and Stop has not been called; only the death of the process moves it otherwise.
RunsOut(w) ==
  crashes' = crashes =>
    IF WorkerStep(w) THEN StepsLeft(w)' < StepsLeft(w) \/ (wpc[w] = "idle" /\ ~stopping)
    ELSE wpc'[w] = wpc[w]

\* A step of a worker itself.
LEMMA WorkerStepRunsOut ==
  ASSUME PipeTypeOK, NEW w \in Workers, WorkerStep(w), wpc[w] # "idle" \/ stopping
  PROVE  StepsLeft(w)' < StepsLeft(w)
<1>t. wpc \in [Workers -> WorkerPC]
  BY DEF PipeTypeOK
<1>1. CASE Exit(w)
  <2>1. wpc[w] = "idle" /\ wpc'[w] = "exited"
    BY <1>1, <1>t DEF Exit
  <2> QED  BY <2>1 DEF StepsLeft
<1>2. CASE (\E a \in Answer : PredictAnswers(w, a)) \/ PredictFails(w)
  <2>1. wpc[w] = "predict" /\ wpc'[w] \in {"store", "requeue", "deadletter"}
    BY <1>2, <1>t DEF PredictAnswers, PredictFails
  <2> QED  BY <2>1 DEF StepsLeft
<1>3. ASSUME NEW o \in Outcome, Requeue(w, o) PROVE StepsLeft(w)' < StepsLeft(w)
  <2>1. wpc[w] = "requeue" /\ wpc'[w] \in {"idle", "deadletter"}
    BY <1>3, <1>t DEF Requeue
  <2> QED  BY <2>1 DEF StepsLeft
<1>4. ASSUME NEW o \in Outcome, MoveToFailed(w, o) PROVE StepsLeft(w)' < StepsLeft(w)
  <2>1. wpc[w] = "deadletter" /\ wpc'[w] = "idle"
    BY <1>4, <1>t DEF MoveToFailed, Finish
  <2> QED  BY <2>1 DEF StepsLeft
<1>5. ASSUME NEW o \in Outcome, StoreResult(w, o) PROVE StepsLeft(w)' < StepsLeft(w)
  <2>1. wpc[w] = "store" /\ wpc'[w] \in {"idle", "feedback"}
    BY <1>5, <1>t DEF StoreResult, Finish
  <2> QED  BY <2>1 DEF StepsLeft
<1>6. CASE ApplyFeedback(w)
  <2>1. wpc[w] = "feedback" /\ wpc'[w] \in {"idle", "logfeedback"}
    BY <1>6, <1>t DEF ApplyFeedback, Finish
  <2> QED  BY <2>1 DEF StepsLeft
<1>7. ASSUME NEW o \in Outcome, LogFeedback(w, o) PROVE StepsLeft(w)' < StepsLeft(w)
  <2>1. wpc[w] = "logfeedback" /\ wpc'[w] \in {"idle", "mark"}
    BY <1>7, <1>t DEF LogFeedback, Finish
  <2> QED  BY <2>1 DEF StepsLeft
<1>8. ASSUME NEW o \in Outcome, MarkFeedbackApplied(w, o) PROVE StepsLeft(w)' < StepsLeft(w)
  <2>1. wpc[w] = "mark" /\ wpc'[w] = "idle"
    BY <1>8, <1>t DEF MarkFeedbackApplied, Finish
  <2> QED  BY <2>1 DEF StepsLeft
<1>9. \A o \in Outcome : ~Dequeue(w, o)
  BY DEF Dequeue
<1> QED  BY <1>1, <1>2, <1>3, <1>4, <1>5, <1>6, <1>7, <1>8, <1>9 DEF WorkerStep

\* Where a worker stands is its own business while the process lives.
LEMMA OthersLeaveTheWorker ==
  ASSUME PipeTypeOK, NEW w \in Workers, [Next]_pipeVars, crashes' = crashes, ~WorkerStep(w)
  PROVE  wpc'[w] = wpc[w]
<1>t. wpc \in [Workers -> WorkerPC] /\ crashes \in Nat
  BY PipelineConstants DEF PipeTypeOK, PipelineAssumption
<1>1. ASSUME NEW v \in Workers, WorkerStep(v) PROVE wpc'[w] = wpc[w]
  <2>1. v # w
    BY <1>1
  <2>2. wpc' = wpc \/ \E x : wpc' = [wpc EXCEPT ![v] = x]
    BY <1>1 DEF WorkerStep, PredictAnswers, PredictFails, Dequeue, Requeue, MoveToFailed,
                StoreResult, LogFeedback, MarkFeedbackApplied, ApplyFeedback, Exit, Finish
  <2> QED  BY <1>t, <2>1, <2>2
<1>2. ~Restart
  BY <1>t DEF Restart
<1>3. ASSUME NEW j \in Jobs, NEW o \in Outcome, Enqueue(j, o) PROVE wpc' = wpc
  BY <1>3 DEF Enqueue, workerVars
<1>4. ASSUME NEW x \in pending, NEW o \in Outcome, RunWrite(x, o) PROVE wpc' = wpc
  BY <1>4 DEF RunWrite, workerVars
<1>5. CASE Stop \/ CloseAudit \/ UNCHANGED pipeVars
  BY <1>5 DEF Stop, CloseAudit, pipeVars, workerVars
<1> QED  BY <1>1, <1>2, <1>3, <1>4, <1>5 DEF Next

\* Six steps end a worker's job and its loop once Stop has been called: nothing that
\* fails, no other worker and no audit goroutine sets it back.
THEOREM WorkersRunOut == Spec => [][\A w \in Workers : RunsOut(w)]_pipeVars
<1>1. ASSUME SafeInv, [Next]_pipeVars, NEW w \in Workers PROVE RunsOut(w)
  <2>1. PipeTypeOK
    BY <1>1 DEF SafeInv
  <2> QED  BY <1>1, <2>1, WorkerStepRunsOut, OthersLeaveTheWorker DEF RunsOut
<1>2. SafeInv /\ [Next]_pipeVars => [\A w \in Workers : RunsOut(w)]_pipeVars
  BY <1>1
<1> QED  BY <1>2, PipelineIsSafe, PTL DEF Spec
=============================================================================
