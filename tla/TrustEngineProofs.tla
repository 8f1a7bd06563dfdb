-------------------------- MODULE TrustEngineProofs --------------------------
(***************************************************************************)
(* Proofs about the IP layer (IPTrust) and the whole engine (TrustEngine), *)
(* for any number of addresses, accounts, learners, writers, profiles and  *)
(* events and any thresholds.                                              *)
(*                                                                         *)
(* The first part is about the IP layer alone.  The second takes over what *)
(* that layer keeps, because every step of the engine is a step of the IP  *)
(* layer or leaves it alone; the user layer, which hardly locks anything,  *)
(* has an invariant of its own.                                            *)
(***************************************************************************)
EXTENDS TrustEngine, TLAPS

(* ----------------------- Part one: the IP layer ------------------------ *)

-----------------------------------------------------------------------------
(* The inductive invariant.                                                *)

\* What holds of every profile object, live or orphaned: a score in the block
\* or ban band is flagged, and so is a confirmed exploit, and LoginAttempts
\* counts no POST that was not made.
Sound(p) ==
  /\ p \in Profile
  /\ Len(p.hits) <= MaxRASPHits
  /\ p.last < 300 => p.blocked
  /\ p.confirmed => p.blocked
  /\ p.logins <= p.posts

\* A profile belongs to one address at most.
StoreInv ==
  /\ store \in [IPs -> ProfileIds \cup {NoProfile}]
  /\ \A a, b \in IPs : store[a] = store[b] /\ store[a] # NoProfile => a = b

\* An object nothing points to is as good as new.
HeapInv ==
  /\ prof \in [ProfileIds -> Profile]
  /\ \A q \in ProfileIds : Sound(prof[q])
  /\ \A q \in ProfileIds : q \notin InUse(store, ptr) => prof[q] = NewIPProfile

\* What a learner carries between its critical sections: the attempts it read
\* were made (the read lock keeps a reset away until it has written them
\* back), its decision rejects exactly if its score does, and if it knew of an
\* exploit its score is a ban even with the challenge boost.
Carries(l) ==
  /\ pc[l] # "idle" <=> ptr[l] # NoProfile
  /\ pc[l] # "idle" => job[l] # NoJob
  /\ pc[l] = "bump" => seen[l].attempts <= prof[ptr[l]].posts
  /\ pc[l] \in {"policy", "update"} =>
       /\ verdict[l].decision \in Rejected <=> verdict[l].score < 300
       /\ verdict[l].knew => verdict[l].score < 100

LearnerInv ==
  /\ pc \in [Learners -> LearnerPC]
  /\ ptr \in [Learners -> ProfileIds \cup {NoProfile}]
  /\ job \in [Learners -> Job \cup {NoJob}]
  /\ seen \in [Learners -> Seen]
  /\ verdict \in [Learners -> Verdict]
  /\ \A l \in Learners : Carries(l)

IInv == StoreInv /\ HeapInv /\ LearnerInv

-----------------------------------------------------------------------------
(* Facts about the scoring operators.                                      *)

\* MakeDecision (fusion.go makeDecision) partitions the scores into the five
\* bands: it rejects exactly below 3.00, bans exactly below 1.00 and serves
\* exactly from 5.00 up.
LEMMA DecisionBands ==
  ASSUME NEW s \in Score
  PROVE  /\ MakeDecision(s) \in Decisions
         /\ MakeDecision(s) \in Rejected <=> s < 300
         /\ MakeDecision(s) = "ban" <=> s < 100
         /\ MakeDecision(s) \in Served <=> s >= 500
BY DEF MakeDecision, Score, Decisions, Rejected, Served

\* The scores of the rungs of the ladder: ban, block and challenge.
OverrideScores == {0, 200, 400}

LEMMA OverrideValues ==
  ASSUME NEW p, NEW suspicious
  PROVE  HardOverride(p, suspicious) \in OverrideScores \cup {NoOverride}
BY DEF HardOverride, OverrideScores

\* ConfirmedExploit wins over every other rung.
LEMMA ExploitOverrides ==
  ASSUME NEW p, NEW suspicious, p.confirmed
  PROVE  HardOverride(p, suspicious) = 0
BY DEF HardOverride

\* Boost and Tier 1 delta keep a score in 0.00..10.00.
LEMMA EventScoreInRange ==
  ASSUME NEW override \in OverrideScores \cup {NoOverride}, NEW raw \in Score,
         NEW solved \in BOOLEAN, NEW ewma \in 0..100
  PROVE  EventScore(override, raw, solved, ewma) \in Score
BY DEF EventScore, NoOverride, OverrideScores, Score, ClampScore, Tier1Delta

\* An overridden event is never served, whether or not its client solved a
\* challenge: the boost of 0.15 bridges no band.
THEOREM OverrideNeverServes ==
  ASSUME NEW override \in OverrideScores, NEW raw \in Score,
         NEW solved \in BOOLEAN, NEW ewma \in 0..100
  PROVE  MakeDecision(EventScore(override, raw, solved, ewma)) \notin Served
BY DEF EventScore, NoOverride, OverrideScores, Score, ClampScore, MakeDecision, Served

LEMMA ExploitScore ==
  ASSUME NEW raw \in Score, NEW solved \in BOOLEAN, NEW ewma \in 0..100
  PROVE  EventScore(0, raw, solved, ewma) < 100
BY DEF EventScore, NoOverride, Score, ClampScore

\* The policy layer (fusion.go applyPolicyOverrides) never relaxes a decision
\* and never makes or unmakes a rejection.
THEOREM PolicyNeverRelaxes ==
  ASSUME NEW p, NEW recon, NEW d \in Decisions
  PROVE  /\ ApplyPolicy(p, recon, d) \in Decisions
         /\ Strictness(ApplyPolicy(p, recon, d)) >= Strictness(d)
         /\ ApplyPolicy(p, recon, d) \in Rejected <=> d \in Rejected
BY DEF ApplyPolicy, Decisions, Strictness, Rejected, Served

-----------------------------------------------------------------------------
(* What each change makes of a profile.                                    *)

LEMMA NewProfileIsSound == Sound(NewIPProfile)
BY IPConstants, Thresholds
   DEF Sound, NewIPProfile, Profile, ThresholdAssumption, Score, InitialScore

\* AddRASPHit keeps at most MaxRASPHits hits, the newest last.
LEMMA AppendHitTyped ==
  ASSUME NEW hits \in Seq(Severity), Len(hits) <= MaxRASPHits, NEW sev \in Severity
  PROVE  AppendHit(hits, sev) \in Seq(Severity) /\ Len(AppendHit(hits, sev)) <= MaxRASPHits
BY Thresholds DEF AppendHit, ThresholdAssumption

\* A CRITICAL hit lowers the score and flags the profile in one section.
LEMMA RASPHitIsSound ==
  ASSUME NEW p, Sound(p), NEW sev \in Severity
  PROVE  Sound(WithRASPHit(p, sev))
<1>1. p.hits \in Seq(Severity) /\ Len(p.hits) <= MaxRASPHits
  BY DEF Sound, Profile
<1>2. PICK h \in Seq(Severity) : h = AppendHit(p.hits, sev) /\ Len(h) <= MaxRASPHits
  BY <1>1, AppendHitTyped
<1>3. CASE sev = "critical"
  <2>1. 0 \in Score
    BY DEF Score
  <2>2. WithRASPHit(p, sev) =
          [p EXCEPT !.hits = h, !.confirmed = TRUE, !.blocked = TRUE, !.last = 0]
    BY <1>2, <1>3 DEF WithRASPHit
  <2>3. WithRASPHit(p, sev) \in Profile
    BY <1>2, <2>1, <2>2 DEF Sound, Profile
  <2> QED  BY <1>2, <2>2, <2>3 DEF Sound, Profile
<1>4. CASE sev # "critical"
  <2>1. WithRASPHit(p, sev) = [p EXCEPT !.hits = h]
    BY <1>2, <1>4 DEF WithRASPHit
  <2> QED  BY <1>2, <2>1 DEF Sound, Profile
<1> QED  BY <1>3, <1>4

LEMMA SolvedIsSound ==
  ASSUME NEW p, Sound(p)
  PROVE  Sound([p EXCEPT !.solved = TRUE])
BY DEF Sound, Profile

\* A correction stays in [0,1].
LEMMA CorrectionIsSound ==
  ASSUME NEW p, Sound(p), NEW delta \in Int
  PROVE  Sound(Corrected(p, delta)) /\ Corrected(p, delta).posts = p.posts
<1>1. p.ewma \in 0..100
  BY DEF Sound, Profile
<1>2. PICK c \in 0..100 : c = Clamp100(p.ewma + delta)
  BY <1>1 DEF Clamp100
<1> QED  BY <1>2 DEF Corrected, Sound, Profile

LEMMA OldIsSound ==
  ASSUME NEW p, Sound(p)
  PROVE  Sound([p EXCEPT !.recent = FALSE])
BY DEF Sound, Profile

\* Writing an attempt back counts no more attempts than POSTs, if the number
\* read was no more than the POSTs of today.
LEMMA BumpIsSound ==
  ASSUME NEW p, Sound(p), NEW n \in 0..LoginBan, n <= p.posts
  PROVE  /\ Sound([p EXCEPT !.logins = Plus1(n, LoginBan), !.posts = Plus1(@, LoginBan)])
         /\ p.posts <= Plus1(p.posts, LoginBan)
<1>1. p.posts \in 0..LoginBan /\ LoginBan \in Nat
  BY Thresholds DEF Sound, Profile, ThresholdAssumption
<1>2. PICK i \in 0..LoginBan : i = Plus1(n, LoginBan)
  BY <1>1 DEF Plus1
<1>3. PICK k \in 0..LoginBan : k = Plus1(p.posts, LoginBan)
  BY <1>1 DEF Plus1
<1>4. i <= k /\ p.posts <= k
  BY <1>1, <1>2, <1>3 DEF Plus1
<1>5. [p EXCEPT !.logins = i, !.posts = k] \in Profile
  BY DEF Sound, Profile
<1> QED  BY <1>2, <1>3, <1>4, <1>5 DEF Sound, Profile

\* Update writes a score and the flag that belongs to it.
LEMMA UpdateIsSound ==
  ASSUME NEW p, Sound(p), NEW e \in Event, NEW v \in Verdict,
         NEW expired \in BOOLEAN, NEW kept \in 0..p.burst,
         v.score < 300 => v.decision \in Rejected
  PROVE  Sound(Updated(p, e, v, expired, kept))
<1>1. PICK burst \in 0..(BurstBan + 1) : burst = Plus1(kept, BurstBan + 1)
  <2>1. p.burst \in 0..(BurstBan + 1) /\ BurstBan \in Nat
    BY Thresholds DEF Sound, Profile, ThresholdAssumption
  <2> QED  BY <2>1 DEF Plus1
<1>2. PICK sens \in 0..SensBan : sens = IF e.sens THEN Plus1(p.sens, SensBan) ELSE p.sens
  <2>1. p.sens \in 0..SensBan /\ SensBan \in Nat
    BY Thresholds DEF Sound, Profile, ThresholdAssumption
  <2> QED  BY <2>1 DEF Plus1
<1>3. PICK countries \in SUBSET Countries : countries = p.countries \cup {e.country}
  BY DEF Sound, Profile, Event
<1>4. PICK logins \in 0..LoginBan, posts \in 0..LoginBan :
        /\ logins <= posts
        /\ logins = IF e.passed THEN 0 ELSE p.logins
        /\ posts = IF e.passed THEN 0 ELSE p.posts
  <2>1. p.logins \in 0..LoginBan /\ p.posts \in 0..LoginBan /\ LoginBan \in Nat
          /\ p.logins <= p.posts
    BY Thresholds DEF Sound, Profile, ThresholdAssumption
  <2> QED  BY <2>1
<1>5. PICK solved \in BOOLEAN, blocked \in BOOLEAN :
        /\ solved = (p.solved /\ ~expired)
        /\ blocked = (p.blocked \/ v.decision \in Rejected)
  OBVIOUS
<1>6. v.score \in Score /\ e.tor \in BOOLEAN /\ e.infra \in BOOLEAN
  BY DEF Verdict, Event
<1>7. Updated(p, e, v, expired, kept) =
        [p EXCEPT !.solved = solved, !.recent = TRUE, !.sens = sens, !.logins = logins,
                  !.posts = posts, !.burst = burst, !.countries = countries,
                  !.tor = e.tor, !.infra = e.infra, !.last = v.score, !.blocked = blocked]
  BY <1>1, <1>2, <1>3, <1>4, <1>5 DEF Updated
<1>8. PICK a \in Profile :
        a = [p EXCEPT !.solved = solved, !.recent = TRUE, !.sens = sens]
  BY DEF Sound, Profile
<1>9. PICK b \in Profile :
        b = [a EXCEPT !.logins = logins, !.posts = posts, !.burst = burst,
                      !.countries = countries]
  BY DEF Profile
<1>10. PICK c \in Profile :
         c = [b EXCEPT !.tor = e.tor, !.infra = e.infra, !.last = v.score,
                       !.blocked = blocked]
  BY <1>6 DEF Profile
<1>11. c = Updated(p, e, v, expired, kept)
  BY <1>7, <1>8, <1>9, <1>10
<1>12. a.hits = p.hits /\ a.confirmed = p.confirmed
  BY <1>8 DEF Sound, Profile
<1>13. b.hits = p.hits /\ b.confirmed = p.confirmed /\ b.logins = logins /\ b.posts = posts
  BY <1>9, <1>12 DEF Profile
<1>14. /\ c.hits = p.hits /\ c.confirmed = p.confirmed /\ c.logins = logins
       /\ c.posts = posts /\ c.last = v.score /\ c.blocked = blocked
  BY <1>10, <1>13 DEF Profile
<1>15. Sound(c)
  BY <1>4, <1>5, <1>14 DEF Sound
<1> QED  BY <1>11, <1>15

-----------------------------------------------------------------------------
(* Initial states, and the store.                                          *)

LEMMA InitIsInv == Init => IInv
<1> SUFFICES ASSUME Init PROVE IInv
  OBVIOUS
<1>1. StoreInv
  BY IPConstants DEF Init, StoreInv, IPAssumption
<1>2. HeapInv
  <2>1. \A q \in ProfileIds : prof[q] = NewIPProfile
    BY DEF Init
  <2>2. NewIPProfile \in Profile
    BY NewProfileIsSound DEF Sound
  <2>3. prof \in [ProfileIds -> Profile]
    BY <2>2 DEF Init
  <2> QED  BY <2>1, <2>3, NewProfileIsSound DEF HeapInv
<1>3. LearnerInv
  <2>1. NoSeen \in Seen
    BY Thresholds DEF NoSeen, Seen, ThresholdAssumption
  <2>2. NoVerdict \in Verdict
    BY DEF NoVerdict, Verdict, Score, InitialScore, Decisions
  <2> QED  BY <2>1, <2>2 DEF Init, LearnerInv, Carries, LearnerPC
<1> QED  BY <1>1, <1>2, <1>3 DEF IInv

\* Load gives ip the profile q and takes no profile from anybody.
LEMMA LoadsKeepsStore ==
  ASSUME StoreInv, NEW ip \in IPs, NEW q \in ProfileIds, Loads(ip, q)
  PROVE  /\ StoreInv'
         /\ store'[ip] = q
         /\ \A i \in IPs : i # ip => store'[i] = store[i]
         /\ store[ip] \in {q, NoProfile}
<1>1. CASE store[ip] = q /\ UNCHANGED store
  BY <1>1 DEF StoreInv
<1>2. CASE /\ store[ip] = NoProfile
           /\ q \notin InUse(store, ptr)
           /\ store' = [store EXCEPT ![ip] = q]
  <2>1. \A i \in IPs : store[i] # q
    BY <1>2 DEF InUse
  <2> QED  BY <1>2, <2>1 DEF StoreInv
<1> QED  BY <1>1, <1>2 DEF Loads

\* Reclaiming unused objects leaves a sound heap.
LEMMA CollectedIsSound ==
  ASSUME NEW heap \in [ProfileIds -> Profile], \A q \in ProfileIds : Sound(heap[q]),
         NEW st, NEW pt
  PROVE  /\ Collected(heap, st, pt) \in [ProfileIds -> Profile]
         /\ \A q \in ProfileIds : Sound(Collected(heap, st, pt)[q])
         /\ \A q \in ProfileIds :
              q \notin InUse(st, pt) => Collected(heap, st, pt)[q] = NewIPProfile
         /\ \A q \in ProfileIds :
              q \in InUse(st, pt) => Collected(heap, st, pt)[q] = heap[q]
<1>1. NewIPProfile \in Profile
  BY NewProfileIsSound DEF Sound
<1> QED  BY <1>1, NewProfileIsSound DEF Collected

\* Whoever loads ip's profile q and leaves in it a sound profile with the
\* same history of POSTs preserves the invariant.
LEMMA WriteKeepsInv ==
  ASSUME IInv, NEW ip \in IPs, NEW q \in ProfileIds, Loads(ip, q),
         NEW p \in Profile, Sound(p), p.posts = prof[q].posts,
         prof' = [prof EXCEPT ![q] = p],
         UNCHANGED <<pc, ptr, job, seen, verdict>>
  PROVE  IInv'
<1>1. StoreInv' /\ store'[ip] = q
  BY LoadsKeepsStore DEF IInv
<1>2. HeapInv'
  <2>1. prof' \in [ProfileIds -> Profile]
    BY DEF IInv, HeapInv
  <2>2. \A r \in ProfileIds : Sound(prof'[r])
    BY DEF IInv, HeapInv
  <2>3. ASSUME NEW r \in ProfileIds, r \notin InUse(store', ptr')
        PROVE  prof'[r] = NewIPProfile
    <3>1. r # q
      BY <1>1, <2>3 DEF InUse
    <3>2. \A i \in IPs : store'[i] # r
      BY <2>3 DEF InUse
    <3>3. \A i \in IPs : store[i] # r
      BY <3>1, <3>2, LoadsKeepsStore, IPConstants DEF IInv, IPAssumption
    <3>4. r \notin InUse(store, ptr)
      BY <2>3, <3>3 DEF InUse
    <3> QED  BY <3>1, <3>4 DEF IInv, HeapInv
  <2> QED  BY <2>1, <2>2, <2>3 DEF HeapInv
<1>3. LearnerInv'
  <2>1. \A r \in ProfileIds : prof'[r].posts = prof[r].posts
    BY DEF IInv, HeapInv
  <2>2. \A l \in Learners : Carries(l)'
    BY <2>1 DEF IInv, LearnerInv, Carries
  <2> QED  BY <2>2 DEF IInv, LearnerInv
<1> QED  BY <1>1, <1>2, <1>3 DEF IInv

-----------------------------------------------------------------------------
(* The steps of a learner.                                                 *)

LEMMA LearnerLoadStep ==
  ASSUME IInv, NEW l \in Learners, NEW ip \in IPs, NEW e \in Events, LearnerLoad(l, ip, e)
  PROVE  IInv'
<1>1. PICK q \in ProfileIds : Loads(ip, q) /\ ptr' = [ptr EXCEPT ![l] = q]
  BY DEF LearnerLoad
<1>2. StoreInv' /\ store'[ip] = q
  BY <1>1, LoadsKeepsStore DEF IInv
<1>3. HeapInv'
  <2>1. prof' = prof
    BY DEF LearnerLoad
  <2>2. ASSUME NEW r \in ProfileIds, r \notin InUse(store', ptr')
        PROVE  prof'[r] = NewIPProfile
    <3>1. r # q
      BY <1>2, <2>2 DEF InUse
    <3>2. \A i \in IPs : store[i] # r
      BY <1>1, <2>2, <3>1, LoadsKeepsStore, IPConstants DEF IInv, IPAssumption, InUse
    <3>3. ptr[l] = NoProfile
      BY DEF LearnerLoad, Goto, IInv, LearnerInv, Carries
    <3>4. \A m \in Learners : ptr[m] # r
      BY <1>1, <2>2, <3>3, IPConstants DEF IInv, LearnerInv, IPAssumption, InUse
    <3>5. r \notin InUse(store, ptr)
      BY <3>2, <3>4 DEF InUse
    <3> QED  BY <2>1, <3>5 DEF IInv, HeapInv
  <2> QED  BY <2>1, <2>2 DEF IInv, HeapInv
<1>4. LearnerInv'
  <2>1. [ip |-> ip, ev |-> e] \in Job \ {NoJob}
    BY IPConstants DEF IPAssumption, Job
  <2>2. /\ pc[l] = "idle" /\ pc' = [pc EXCEPT ![l] = "loaded"]
        /\ job' = [job EXCEPT ![l] = [ip |-> ip, ev |-> e]]
        /\ UNCHANGED <<prof, seen, verdict>>
    BY DEF LearnerLoad, Goto
  <2>3. q # NoProfile
    BY IPConstants DEF IPAssumption
  <2>4. ASSUME NEW m \in Learners PROVE Carries(m)'
    <3>1. CASE m = l
      BY <1>1, <2>1, <2>2, <2>3, <3>1 DEF IInv, LearnerInv, Carries
    <3>2. CASE m # l
      BY <1>1, <2>2, <3>2 DEF IInv, LearnerInv, Carries
    <3> QED  BY <3>1, <3>2
  <2> QED  BY <1>1, <2>1, <2>2, <2>4 DEF IInv, LearnerInv, LearnerPC
<1> QED  BY <1>2, <1>3, <1>4 DEF IInv

\* A step that moves only learner l and what it carries preserves the
\* invariant if l carries the right things afterwards.
LEMMA LearnerMoves ==
  ASSUME IInv, NEW l \in Learners, NEW there \in LearnerPC \ {"idle"},
         NEW s \in Seen, NEW v \in Verdict,
         pc[l] # "idle",
         pc' = [pc EXCEPT ![l] = there],
         seen' = [seen EXCEPT ![l] = s],
         verdict' = [verdict EXCEPT ![l] = v],
         UNCHANGED <<store, prof, ptr, job>>,
         there = "bump" => s.attempts <= prof[ptr[l]].posts,
         there \in {"policy", "update"} =>
           /\ v.decision \in Rejected <=> v.score < 300
           /\ v.knew => v.score < 100
  PROVE  IInv'
<1>1. StoreInv' /\ HeapInv'
  BY DEF IInv, StoreInv, HeapInv, InUse
<1>2. ASSUME NEW m \in Learners PROVE Carries(m)'
  <2>1. CASE m = l
    BY <2>1 DEF IInv, LearnerInv, Carries
  <2>2. CASE m # l
    BY <2>2 DEF IInv, LearnerInv, Carries
  <2> QED  BY <2>1, <2>2
<1> QED  BY <1>1, <1>2 DEF IInv, LearnerInv

\* A running learner points at a sound profile and works on a real event.
LEMMA RunningLearner ==
  ASSUME IInv, NEW l \in Learners, pc[l] # "idle"
  PROVE  /\ ptr[l] \in ProfileIds /\ prof[ptr[l]] \in Profile /\ Sound(prof[ptr[l]])
         /\ job[l] \in Job /\ job[l].ev \in Event
         /\ seen[l] \in Seen /\ verdict[l] \in Verdict
<1>1. ptr[l] \in ProfileIds
  BY DEF IInv, LearnerInv, Carries
<1>2. job[l] \in Job
  BY DEF IInv, LearnerInv, Carries
<1>3. job[l].ev \in Event
  BY <1>2, IPConstants DEF Job, IPAssumption
<1> QED  BY <1>1, <1>2, <1>3 DEF IInv, LearnerInv, HeapInv

LEMMA CapturedTyped ==
  ASSUME NEW q \in ProfileIds, prof[q] \in Profile, NEW n \in 0..LoginBan
  PROVE  Captured(q, n) \in Seen
BY DEF Captured, Seen, Profile

LEMMA ScoreEventStep ==
  ASSUME IInv, NEW l \in Learners, ScoreEvent(l)
  PROVE  IInv'
<1>1. pc[l] = "loaded"
  BY DEF ScoreEvent, Goto
<1>2. Captured(ptr[l], 0) \in Seen /\ verdict[l] \in Verdict
  BY <1>1, RunningLearner, CapturedTyped, Thresholds DEF ThresholdAssumption
<1>3. verdict' = [verdict EXCEPT ![l] = verdict[l]]
  BY DEF ScoreEvent, IInv, LearnerInv
<1> QED  BY <1>1, <1>2, <1>3, LearnerMoves DEF ScoreEvent, Goto, LearnerPC

LEMMA ReadLoginAttemptsStep ==
  ASSUME IInv, NEW l \in Learners, ReadLoginAttempts(l)
  PROVE  IInv'
<1>1. pc[l] = "loaded"
  BY DEF ReadLoginAttempts, Goto
<1>2. ptr[l] \in ProfileIds /\ prof[ptr[l]] \in Profile /\ Sound(prof[ptr[l]])
  BY <1>1, RunningLearner
<1>3. PICK n \in 0..LoginBan : n = prof[ptr[l]].logins /\ n <= prof[ptr[l]].posts
  BY <1>2 DEF Profile, Sound
<1>4. PICK s \in Seen : s = Captured(ptr[l], n) /\ s.attempts = n
  BY <1>2, CapturedTyped DEF Captured
<1>5. verdict[l] \in Verdict /\ verdict' = [verdict EXCEPT ![l] = verdict[l]]
  BY DEF ReadLoginAttempts, IInv, LearnerInv
<1>6. seen' = [seen EXCEPT ![l] = s]
  BY <1>3, <1>4 DEF ReadLoginAttempts
<1> QED  BY <1>1, <1>3, <1>4, <1>5, <1>6, LearnerMoves
         DEF ReadLoginAttempts, Goto, LearnerPC

\* The increment read under the read lock is written back before anybody can
\* reset the counters.
LEMMA BumpLoginAttemptsStep ==
  ASSUME IInv, NEW l \in Learners, BumpLoginAttempts(l)
  PROVE  IInv'
<1> DEFINE old == prof[ptr[l]]
<1>1. pc[l] = "bump" /\ ptr[l] \in ProfileIds /\ seen[l] \in Seen
  BY RunningLearner DEF BumpLoginAttempts, Goto
<1>2. old \in Profile /\ Sound(old) /\ seen[l].attempts \in 0..LoginBan
        /\ seen[l].attempts <= old.posts
  BY <1>1, RunningLearner DEF IInv, LearnerInv, Carries, Seen
<1>3. PICK p \in Profile :
        /\ p = [old EXCEPT !.logins = Plus1(seen[l].attempts, LoginBan),
                            !.posts = Plus1(@, LoginBan)]
        /\ Sound(p) /\ old.posts <= p.posts
  <2> DEFINE p == [old EXCEPT !.logins = Plus1(seen[l].attempts, LoginBan),
                              !.posts = Plus1(@, LoginBan)]
  <2>1. Sound(p) /\ old.posts <= Plus1(old.posts, LoginBan)
    BY <1>2, BumpIsSound
  <2>2. p.posts = Plus1(old.posts, LoginBan)
    BY <1>2 DEF Profile
  <2> QED  BY <2>1, <2>2 DEF Sound
<1>4. prof' = [prof EXCEPT ![ptr[l]] = p]
  BY <1>1, <1>3 DEF BumpLoginAttempts
<1>5. /\ pc' = [pc EXCEPT ![l] = "scored"]
      /\ UNCHANGED <<store, ptr, job, seen, verdict>>
  BY DEF BumpLoginAttempts, Goto
<1>6. StoreInv' /\ HeapInv'
  <2>1. ptr[l] \in InUse(store, ptr)
    BY DEF InUse
  <2>2. InUse(store', ptr') = InUse(store, ptr)
    BY <1>5 DEF InUse
  <2>3. prof' \in [ProfileIds -> Profile] /\ \A q \in ProfileIds : Sound(prof'[q])
    BY <1>3, <1>4 DEF IInv, HeapInv
  <2>4. \A q \in ProfileIds : q # ptr[l] => prof'[q] = prof[q]
    BY <1>4 DEF IInv, HeapInv
  <2> QED  BY <1>5, <2>1, <2>2, <2>3, <2>4 DEF IInv, HeapInv, StoreInv
<1>7. \A q \in ProfileIds : prof[q].posts <= prof'[q].posts
  <2>1. \A q \in ProfileIds : prof[q].posts \in 0..LoginBan
    BY DEF IInv, HeapInv, Profile
  <2> QED  BY <1>1, <1>3, <1>4, <2>1, Thresholds DEF IInv, HeapInv, ThresholdAssumption
<1>8. ASSUME NEW m \in Learners PROVE Carries(m)'
  <2>1. CASE pc[m] = "bump" /\ m # l
    <3>1. ptr[m] \in ProfileIds
      BY <2>1, RunningLearner
    <3>2. PICK n \in 0..LoginBan, i \in 0..LoginBan, k \in 0..LoginBan :
            n = seen[m].attempts /\ i = prof[ptr[m]].posts /\ k = prof'[ptr[m]].posts
      BY <1>6, <3>1 DEF IInv, LearnerInv, HeapInv, Profile, Seen
    <3>3. n <= i /\ i <= k
      BY <1>7, <2>1, <3>1, <3>2 DEF IInv, LearnerInv, Carries
    <3>4. n <= k
      BY <3>2, <3>3, Thresholds DEF ThresholdAssumption
    <3> QED  BY <1>5, <2>1, <3>2, <3>4 DEF IInv, LearnerInv, Carries
  <2>2. CASE pc[m] # "bump" \/ m = l
    BY <1>1, <1>5, <2>2 DEF IInv, LearnerInv, Carries
  <2> QED  BY <2>1, <2>2
<1> QED  BY <1>5, <1>6, <1>8 DEF IInv, LearnerInv, LearnerPC

\* Scoring an event after a CRITICAL effect is known yields a ban.
LEMMA CheckHardOverridesStep ==
  ASSUME IInv, NEW l \in Learners, CheckHardOverrides(l)
  PROVE  IInv'
<1> DEFINE p == prof[ptr[l]]
           e == job[l].ev
           o == HardOverride(p, e.suspicious)
           score == EventScore(o, e.raw, seen[l].solved, seen[l].ewma)
           v == [score |-> score, decision |-> MakeDecision(score), knew |-> p.confirmed]
<1>1. pc[l] = "scored"
  BY DEF CheckHardOverrides, Goto
<1>2. p \in Profile /\ e \in Event /\ seen[l] \in Seen
  BY <1>1, RunningLearner
<1>3. e.raw \in Score /\ seen[l].solved \in BOOLEAN /\ seen[l].ewma \in 0..100
        /\ p.confirmed \in BOOLEAN
  BY <1>2 DEF Event, Seen, Profile
<1>4. o \in OverrideScores \cup {NoOverride}
  BY OverrideValues
<1>5. p.confirmed => o = 0
  BY ExploitOverrides
<1> HIDE DEF p, e, o
<1>6. score \in Score
  BY <1>3, <1>4, EventScoreInRange
<1>7. p.confirmed => score < 100
  BY <1>3, <1>5, ExploitScore
<1> HIDE DEF score
<1>8. /\ MakeDecision(score) \in Decisions
      /\ MakeDecision(score) \in Rejected <=> score < 300
  BY <1>6, DecisionBands
<1>9. /\ v \in Verdict
      /\ v.decision \in Rejected <=> v.score < 300
      /\ v.knew => v.score < 100
  BY <1>3, <1>6, <1>7, <1>8 DEF Verdict
<1>10. /\ verdict' = [verdict EXCEPT ![l] = v] /\ pc' = [pc EXCEPT ![l] = "policy"]
       /\ UNCHANGED <<store, prof, ptr, job, seen>>
  BY DEF CheckHardOverrides, Goto, p, e, o, score
<1>11. seen' = [seen EXCEPT ![l] = seen[l]]
  BY <1>10 DEF IInv, LearnerInv
<1> HIDE DEF v
<1> QED  BY <1>1, <1>2, <1>9, <1>10, <1>11, LearnerMoves DEF LearnerPC

\* The policy layer leaves rejections and the score alone.
LEMMA ApplyPolicyOverridesStep ==
  ASSUME IInv, NEW l \in Learners, ApplyPolicyOverrides(l)
  PROVE  IInv'
<1>1. pc[l] = "policy"
  BY DEF ApplyPolicyOverrides, Goto
<1>2. verdict[l] \in Verdict /\ verdict[l].decision \in Decisions /\ seen[l] \in Seen
  BY <1>1, RunningLearner DEF Verdict
<1>3. PICK d \in Decisions :
        /\ d = ApplyPolicy(prof[ptr[l]], job[l].ev.recon, verdict[l].decision)
        /\ d \in Rejected <=> verdict[l].decision \in Rejected
  BY <1>2, PolicyNeverRelaxes
<1>4. PICK v \in Verdict : v = [verdict[l] EXCEPT !.decision = d]
  BY <1>2 DEF Verdict
<1>5. v.decision = d /\ v.score = verdict[l].score /\ v.knew = verdict[l].knew
  BY <1>2, <1>4 DEF Verdict
<1>6. verdict' = [verdict EXCEPT ![l] = v] /\ pc' = [pc EXCEPT ![l] = "update"]
        /\ UNCHANGED <<store, prof, ptr, job, seen>>
  BY <1>3, <1>4 DEF ApplyPolicyOverrides, Goto, IInv, LearnerInv
<1>7. seen' = [seen EXCEPT ![l] = seen[l]]
  BY <1>6 DEF IInv, LearnerInv
<1>8. /\ v.decision \in Rejected <=> v.score < 300
      /\ v.knew => v.score < 100
  BY <1>1, <1>3, <1>5 DEF IInv, LearnerInv, Carries
<1> QED  BY <1>1, <1>2, <1>6, <1>7, <1>8, LearnerMoves DEF LearnerPC

\* When a learner drops its pointer to a heap that is sound and in which no
\* learner in the middle of a login POST lost a POST, the invariant stays.
LEMMA EndsKeepsInv ==
  ASSUME IInv, NEW l \in Learners, pc[l] # "idle",
         NEW heap \in [ProfileIds -> Profile],
         \A q \in ProfileIds : Sound(heap[q]),
         \A m \in Learners : pc[m] = "bump" => heap[ptr[m]].posts = prof[ptr[m]].posts,
         Ends(l, heap), UNCHANGED store
  PROVE  IInv'
<1>1. /\ pc' = [pc EXCEPT ![l] = "idle"] /\ ptr' = [ptr EXCEPT ![l] = NoProfile]
      /\ job' = [job EXCEPT ![l] = NoJob] /\ seen' = [seen EXCEPT ![l] = NoSeen]
      /\ verdict' = [verdict EXCEPT ![l] = NoVerdict]
      /\ prof' = Collected(heap, store, ptr')
  BY DEF Ends
<1>2. StoreInv'
  BY DEF IInv, StoreInv
<1>3. /\ prof' \in [ProfileIds -> Profile]
      /\ \A q \in ProfileIds : Sound(prof'[q])
      /\ \A q \in ProfileIds : q \notin InUse(store, ptr') => prof'[q] = NewIPProfile
      /\ \A q \in ProfileIds : q \in InUse(store, ptr') => prof'[q] = heap[q]
  BY <1>1, CollectedIsSound
<1>4. HeapInv'
  BY <1>3 DEF HeapInv
<1>5. NoSeen \in Seen /\ NoVerdict \in Verdict
  BY Thresholds DEF NoSeen, Seen, ThresholdAssumption, NoVerdict, Verdict, Score,
                    InitialScore, Decisions
<1>6. ASSUME NEW m \in Learners PROVE Carries(m)'
  <2>1. CASE m = l
    BY <1>1, <2>1 DEF IInv, LearnerInv, Carries
  <2>2. CASE m # l /\ pc[m] = "bump"
    <3>1. ptr[m] \in ProfileIds /\ ptr'[m] = ptr[m]
      BY <1>1, <2>2, RunningLearner DEF IInv, LearnerInv
    <3>2. ptr[m] \in InUse(store, ptr')
      BY <3>1 DEF InUse
    <3>3. prof'[ptr[m]].posts = prof[ptr[m]].posts
      BY <1>3, <2>2, <3>1, <3>2
    <3> QED  BY <1>1, <2>2, <3>1, <3>3 DEF IInv, LearnerInv, Carries
  <2>3. CASE m # l /\ pc[m] # "bump"
    BY <1>1, <2>3 DEF IInv, LearnerInv, Carries
  <2> QED  BY <2>1, <2>2, <2>3
<1> QED  BY <1>1, <1>2, <1>4, <1>5, <1>6 DEF IInv, LearnerInv, LearnerPC

LEMMA ReturnFromUserLayerStep ==
  ASSUME IInv, NEW l \in Learners, ReturnFromUserLayer(l)
  PROVE  IInv'
BY EndsKeepsInv DEF ReturnFromUserLayer, IInv, HeapInv

\* Update writes score and flag together; the write lock keeps it away from a
\* learner between its two halves of an increment.
LEMMA UpdateProfileStep ==
  ASSUME IInv, NEW l \in Learners, UpdateProfile(l)
  PROVE  IInv'
<1> DEFINE q == ptr[l]
<1>1. pc[l] = "update" /\ ~ReadLocked(q) /\ UNCHANGED store
  BY DEF UpdateProfile
<1>2. /\ q \in ProfileIds /\ prof[q] \in Profile /\ Sound(prof[q])
      /\ job[l].ev \in Event /\ verdict[l] \in Verdict /\ seen[l] \in Seen
  BY <1>1, RunningLearner
<1>3. verdict[l].score < 300 => verdict[l].decision \in Rejected
  BY <1>1 DEF IInv, LearnerInv, Carries
<1>4. PICK p, heap :
        /\ \E expired \in BOOLEAN, kept \in 0..prof[q].burst :
             p = Updated(prof[q], job[l].ev, verdict[l], expired, kept)
        /\ heap = [prof EXCEPT ![q] = p]
        /\ \/ Ends(l, heap)
           \/ /\ pc' = [pc EXCEPT ![l] = "user"]
              /\ prof' = heap
              /\ UNCHANGED <<ptr, job, seen, verdict>>
  BY DEF UpdateProfile
<1>5. Sound(p)
  BY <1>2, <1>3, <1>4, UpdateIsSound
<1>6. p \in Profile
  BY <1>5 DEF Sound
<1>7. heap = [prof EXCEPT ![q] = p]
  BY <1>4
<1>8. heap \in [ProfileIds -> Profile] /\ \A r \in ProfileIds : Sound(heap[r])
  BY <1>2, <1>5, <1>6, <1>7 DEF IInv, HeapInv
<1>9. ASSUME NEW m \in Learners, pc[m] = "bump"
      PROVE  ptr[m] \in ProfileIds /\ heap[ptr[m]] = prof[ptr[m]]
  <2>1. ptr[m] # q /\ ptr[m] \in ProfileIds
    BY <1>1, <1>9, RunningLearner DEF ReadLocked
  <2> QED  BY <1>7, <2>1 DEF IInv, HeapInv
<1>10. CASE Ends(l, heap)
  BY <1>1, <1>8, <1>9, <1>10, EndsKeepsInv
<1>11. CASE /\ pc' = [pc EXCEPT ![l] = "user"]
            /\ prof' = heap
            /\ UNCHANGED <<ptr, job, seen, verdict>>
  <2>1. q \in InUse(store, ptr)
    BY DEF InUse
  <2>2. HeapInv'
    BY <1>1, <1>7, <1>8, <1>11, <2>1 DEF IInv, HeapInv, InUse
  <2>3. \A m \in Learners : Carries(m)'
    BY <1>1, <1>9, <1>11 DEF IInv, LearnerInv, Carries
  <2> QED  BY <1>1, <1>11, <2>2, <2>3 DEF IInv, StoreInv, LearnerInv, LearnerPC
<1> QED  BY <1>4, <1>10, <1>11

-----------------------------------------------------------------------------
(* The other steps.                                                        *)

LEMMA GatekeeperLoadStep ==
  ASSUME IInv, NEW ip \in IPs, GatekeeperLoad(ip)
  PROVE  IInv'
<1>1. PICK q \in ProfileIds : Loads(ip, q)
  BY DEF GatekeeperLoad
<1>2. PICK p \in Profile : p = prof[q] /\ Sound(p) /\ prof = [prof EXCEPT ![q] = p]
  BY DEF IInv, HeapInv
<1>3. prof' = [prof EXCEPT ![q] = p] /\ UNCHANGED <<pc, ptr, job, seen, verdict>>
  BY <1>2 DEF GatekeeperLoad
<1> QED  BY <1>1, <1>2, <1>3, WriteKeepsInv

LEMMA RASPHitStep ==
  ASSUME IInv, NEW ip \in IPs, NEW sev \in Severity, RASPHitIP(ip, sev)
  PROVE  IInv'
<1>1. PICK q \in ProfileIds :
        /\ Loads(ip, q)
        /\ prof' = [prof EXCEPT ![q] = WithRASPHit(@, sev)]
        /\ UNCHANGED <<pc, ptr, job, seen, verdict>>
  BY DEF RASPHitIP, Writes
<1>2. Sound(prof[q]) /\ prof[q] \in Profile
  BY DEF IInv, HeapInv
<1>3. PICK p \in Profile : p = WithRASPHit(prof[q], sev) /\ Sound(p)
  BY <1>2, RASPHitIsSound DEF Sound
<1>4. p.posts = prof[q].posts
  BY <1>2, <1>3 DEF WithRASPHit, Profile
<1>5. prof' = [prof EXCEPT ![q] = p]
  BY <1>1, <1>3
<1> QED  BY <1>1, <1>3, <1>4, <1>5, WriteKeepsInv

LEMMA ChallengeSolvedStep ==
  ASSUME IInv, NEW ip \in IPs, ChallengeSolvedIP(ip)
  PROVE  IInv'
<1>1. PICK q \in ProfileIds :
        /\ Loads(ip, q)
        /\ prof' = [prof EXCEPT ![q] = [@ EXCEPT !.solved = TRUE]]
        /\ UNCHANGED <<pc, ptr, job, seen, verdict>>
  BY DEF ChallengeSolvedIP, Writes
<1>2. Sound(prof[q]) /\ prof[q] \in Profile
  BY DEF IInv, HeapInv
<1>3. PICK p \in Profile : p = [prof[q] EXCEPT !.solved = TRUE] /\ Sound(p)
  BY <1>2, SolvedIsSound DEF Sound
<1>4. p.posts = prof[q].posts
  BY <1>2, <1>3 DEF Profile
<1>5. prof' = [prof EXCEPT ![q] = p]
  BY <1>1, <1>3
<1> QED  BY <1>1, <1>3, <1>4, <1>5, WriteKeepsInv

LEMMA Tier1CorrectionStep ==
  ASSUME IInv, NEW ip \in IPs, NEW delta \in {-CorrectionDelta, CorrectionDelta},
         Tier1CorrectionIP(ip, delta)
  PROVE  IInv'
<1>1. PICK q \in ProfileIds :
        /\ Loads(ip, q)
        /\ prof' = [prof EXCEPT ![q] = Corrected(@, delta)]
        /\ UNCHANGED <<pc, ptr, job, seen, verdict>>
  BY DEF Tier1CorrectionIP, Writes
<1>2. Sound(prof[q]) /\ prof[q] \in Profile
  BY DEF IInv, HeapInv
<1>3. delta \in Int
  BY IPConstants DEF IPAssumption
<1>4. PICK p \in Profile : p = Corrected(prof[q], delta) /\ Sound(p) /\ p.posts = prof[q].posts
  BY <1>2, <1>3, CorrectionIsSound DEF Sound
<1>5. prof' = [prof EXCEPT ![q] = p]
  BY <1>1, <1>4
<1> QED  BY <1>1, <1>4, <1>5, WriteKeepsInv

LEMMA HourPassesStep ==
  ASSUME IInv, HourPasses
  PROVE  IInv'
<1>1. UNCHANGED <<store, pc, ptr, job, seen, verdict>>
  BY DEF HourPasses
<1>2. ASSUME NEW q \in ProfileIds
      PROVE  /\ prof'[q] = [prof[q] EXCEPT !.recent = FALSE]
             /\ Sound(prof'[q]) /\ prof'[q] \in Profile
             /\ prof'[q].posts = prof[q].posts
             /\ prof[q] = NewIPProfile => prof'[q] = NewIPProfile
  <2>1. prof'[q] = [prof[q] EXCEPT !.recent = FALSE]
    BY DEF HourPasses
  <2>2. Sound(prof[q]) /\ prof[q] \in Profile
    BY DEF IInv, HeapInv
  <2>3. Sound(prof'[q])
    BY <2>1, <2>2, OldIsSound
  <2>4. prof'[q].posts = prof[q].posts
    BY <2>1, <2>2 DEF Profile
  <2>5. prof[q] = NewIPProfile => prof'[q] = NewIPProfile
    <3>1. NewIPProfile.recent = FALSE /\ NewIPProfile \in Profile
      BY NewProfileIsSound DEF NewIPProfile, Sound
    <3>2. \A p \in Profile : p.recent = FALSE => [p EXCEPT !.recent = FALSE] = p
      BY DEF Profile
    <3> QED  BY <2>1, <3>1, <3>2
  <2> QED  BY <2>1, <2>3, <2>4, <2>5 DEF Sound
<1>3. prof' \in [ProfileIds -> Profile]
  BY <1>2 DEF HourPasses
<1>4. HeapInv'
  BY <1>1, <1>2, <1>3 DEF IInv, HeapInv, InUse
<1>5. \A l \in Learners : Carries(l)'
  BY <1>1 DEF HourPasses, IInv, LearnerInv, Carries
<1> QED  BY <1>1, <1>4, <1>5 DEF IInv, StoreInv, LearnerInv

\* Deleting addresses from the store, whatever learners still point at.
LEMMA ForgettingKeepsInv ==
  ASSUME IInv, StoreInv', prof' = Collected(prof, store', ptr),
         UNCHANGED <<pc, ptr, job, seen, verdict>>
  PROVE  IInv'
<1>1. /\ prof' \in [ProfileIds -> Profile]
      /\ \A q \in ProfileIds : Sound(prof'[q])
      /\ \A q \in ProfileIds : q \notin InUse(store', ptr) => prof'[q] = NewIPProfile
      /\ \A q \in ProfileIds : q \in InUse(store', ptr) => prof'[q] = prof[q]
  BY CollectedIsSound DEF IInv, HeapInv
<1>2. HeapInv'
  BY <1>1 DEF HeapInv, InUse
<1>3. ASSUME NEW l \in Learners PROVE Carries(l)'
  <2>1. CASE pc[l] = "bump"
    <3>1. ptr[l] \in ProfileIds /\ ptr[l] \in InUse(store', ptr)
      BY <2>1, RunningLearner DEF InUse
    <3> QED  BY <1>1, <2>1, <3>1 DEF IInv, LearnerInv, Carries
  <2>2. CASE pc[l] # "bump"
    BY <2>2 DEF IInv, LearnerInv, Carries
  <2> QED  BY <2>1, <2>2
<1> QED  BY <1>2, <1>3 DEF IInv, LearnerInv

LEMMA EvictStep ==
  ASSUME IInv, NEW ip \in IPs, Evict(ip)
  PROVE  IInv'
<1>1. StoreInv'
  BY DEF Evict, IInv, StoreInv
<1> QED  BY <1>1, ForgettingKeepsInv DEF Evict

LEMMA ResetAllDataStep ==
  ASSUME IInv, ResetAllData
  PROVE  IInv'
<1>1. StoreInv'
  BY DEF ResetAllData, StoreInv
<1> QED  BY <1>1, ForgettingKeepsInv DEF ResetAllData

\* IInv is inductive.
THEOREM NextKeepsInv == IInv /\ [Next]_ipVars => IInv'
<1> SUFFICES ASSUME IInv, [Next]_ipVars PROVE IInv'
  OBVIOUS
<1>1. CASE UNCHANGED ipVars
  BY <1>1 DEF ipVars, IInv, StoreInv, HeapInv, InUse, LearnerInv, Carries
<1>2. CASE Next
  <2>1. ASSUME NEW l \in Learners, LearnerStep(l) PROVE IInv'
    BY <2>1, ScoreEventStep, ReadLoginAttemptsStep, BumpLoginAttemptsStep,
       CheckHardOverridesStep, ApplyPolicyOverridesStep, UpdateProfileStep,
       ReturnFromUserLayerStep DEF LearnerStep
  <2> QED  BY <1>2, <2>1, GatekeeperLoadStep, LearnerLoadStep, RASPHitStep,
              ChallengeSolvedStep, Tier1CorrectionStep, HourPassesStep, EvictStep,
              ResetAllDataStep DEF Next
<1> QED  BY <1>1, <1>2

THEOREM Invariance == Spec => []IInv
BY InitIsInv, NextKeepsInv, PTL DEF Spec

-----------------------------------------------------------------------------
(* What follows from the invariant.                                        *)

\* Types, as the runs check them: scores, corrections and counters stay in
\* range and a profile remembers at most MaxRASPHits hits.
THEOREM TypeCorrectness == Spec => []TypeOK
<1>1. IInv => TypeOK
  BY DEF IInv, StoreInv, HeapInv, LearnerInv, Carries, Sound, TypeOK
<1> QED  BY <1>1, Invariance, PTL

\* The Gatekeeper's view of a profile.
StandingOf(p) ==
  LET d == MakeDecision(p.last) IN IF p.blocked /\ d \in Served THEN "challenge" ELSE d

\* The profile the Gatekeeper sees for ip: a stranger's is as good as new.
View(ip) == IF store[ip] = NoProfile THEN NewIPProfile ELSE prof[store[ip]]

LEMMA ViewIsSound ==
  ASSUME IInv, NEW ip \in IPs
  PROVE  View(ip) \in Profile /\ Sound(View(ip))
BY NewProfileIsSound DEF View, IInv, StoreInv, HeapInv, Sound

LEMMA GatekeeperSeesView ==
  ASSUME NEW ip \in IPs
  PROVE  Gatekeeper(ip) = StandingOf(View(ip)) /\ (EverBlocked(ip) <=> View(ip).blocked)
<1>1. CASE store[ip] = NoProfile
  <2>1. NewIPProfile.last = InitialScore /\ NewIPProfile.blocked = FALSE
    BY DEF NewIPProfile
  <2> QED  BY <1>1, <2>1 DEF Gatekeeper, GateScore, EverBlocked, StandingOf, View
<1>2. CASE store[ip] # NoProfile
  BY <1>2 DEF Gatekeeper, GateScore, EverBlocked, StandingOf, View
<1> QED  BY <1>1, <1>2

\* A standing rejects exactly if the score does, and a flag keeps it from
\* serving.
LEMMA StandingBands ==
  ASSUME NEW p \in Profile
  PROVE  /\ StandingOf(p) \in Decisions
         /\ StandingOf(p) \in Rejected <=> p.last < 300
         /\ p.blocked => StandingOf(p) \notin Served
         /\ p.last < 100 => StandingOf(p) = "ban"
<1>1. p.last \in Score
  BY DEF Profile
<1>2. /\ MakeDecision(p.last) \in Decisions
      /\ MakeDecision(p.last) \in Rejected <=> p.last < 300
      /\ MakeDecision(p.last) = "ban" <=> p.last < 100
  BY <1>1, DecisionBands
<1> QED  BY <1>2 DEF StandingOf, Decisions, Rejected, Served

\* Whoever the Gatekeeper rejects carries the sticky flag.
THEOREM RejectedCarryTheFlag == Spec => []RejectedIsFlagged
<1>1. IInv => RejectedIsFlagged
  BY ViewIsSound, GatekeeperSeesView, StandingBands DEF RejectedIsFlagged, Sound
<1> QED  BY <1>1, Invariance, PTL

\* After a CRITICAL effect no interleaving of learners, evictions, challenges
\* and corrections gets the address served unchallenged while its profile lives.
THEOREM ExploitIsContained == Spec => []ExploitContained
<1>1. ASSUME IInv, NEW ip \in IPs, Exploited(ip)
      PROVE  Gatekeeper(ip) \notin Served
  <2>1. View(ip).confirmed
    BY <1>1 DEF Exploited, View
  <2> QED  BY <1>1, <2>1, ViewIsSound, GatekeeperSeesView, StandingBands DEF Sound
<1>2. IInv => ExploitContained
  BY <1>1 DEF ExploitContained
<1> QED  BY <1>2, Invariance, PTL

\* The increments under the read lock never invent an attempt.
THEOREM LoginsAreReal == Spec => []NoPhantomLogins
<1>1. IInv => NoPhantomLogins
  BY DEF IInv, HeapInv, Sound, NoPhantomLogins
<1> QED  BY <1>1, Invariance, PTL

\* Only its own Update takes a learner out of Phase 3.
LEMMA OnlyUpdateLeavesUpdate ==
  ASSUME IInv, Next, NEW l \in Learners, pc[l] = "update", pc'[l] # "update"
  PROVE  UpdateProfile(l)
<1>1. ASSUME NEW m \in Learners, LearnerStep(m) PROVE UpdateProfile(l)
  <2>1. m = l
    BY <1>1 DEF LearnerStep, ScoreEvent, ReadLoginAttempts, BumpLoginAttempts,
                CheckHardOverrides, ApplyPolicyOverrides, UpdateProfile,
                ReturnFromUserLayer, Ends, Goto, IInv, LearnerInv
  <2> QED  BY <1>1, <2>1 DEF LearnerStep, ScoreEvent, ReadLoginAttempts, BumpLoginAttempts,
                CheckHardOverrides, ApplyPolicyOverrides, ReturnFromUserLayer, Goto
<1>2. ASSUME NEW m \in Learners, NEW ip \in IPs, NEW e \in Events, LearnerLoad(m, ip, e)
      PROVE  FALSE
  BY <1>2 DEF LearnerLoad, Goto, IInv, LearnerInv
<1> QED
  BY <1>1, <1>2 DEF Next, GatekeeperLoad, RASPHitIP, ChallengeSolvedIP, Tier1CorrectionIP,
                    Writes, HourPasses, Evict, ResetAllData

\* A learner that knew of the exploit leaves the address banned.
THEOREM LearnedExploitBans == Spec => LearnedAfterExploitBans
<1> DEFINE A == \A l \in Learners :
       (pc[l] = "update" /\ pc'[l] # "update" /\ verdict[l].knew)
         => \A ip \in IPs : (store[ip] = ptr[l] /\ store'[ip] = ptr[l])
                              => Gatekeeper(ip)' = "ban"
<1>1. ASSUME IInv, IInv', Next, NEW l \in Learners,
             pc[l] = "update", pc'[l] # "update", verdict[l].knew,
             NEW ip \in IPs, store[ip] = ptr[l], store'[ip] = ptr[l]
      PROVE  Gatekeeper(ip)' = "ban"
  <2>1. UpdateProfile(l) /\ ptr[l] \in ProfileIds /\ prof[ptr[l]] \in Profile
          /\ verdict[l] \in Verdict /\ verdict[l].score < 100
    BY <1>1, OnlyUpdateLeavesUpdate, RunningLearner DEF IInv, LearnerInv, Carries
  <2>2. PICK expired, kept, heap :
          /\ heap = [prof EXCEPT ![ptr[l]] =
                        Updated(@, job[l].ev, verdict[l], expired, kept)]
          /\ Ends(l, heap) \/ prof' = heap
    BY <2>1 DEF UpdateProfile
  <2>3. heap[ptr[l]].last = verdict[l].score
    <3>1. "last" \in DOMAIN prof[ptr[l]]
      BY <2>1 DEF Profile
    <3>2. Updated(prof[ptr[l]], job[l].ev, verdict[l], expired, kept).last = verdict[l].score
      BY <3>1 DEF Updated
    <3>3. heap[ptr[l]] = Updated(prof[ptr[l]], job[l].ev, verdict[l], expired, kept)
      BY <1>1, <2>1, <2>2 DEF IInv, HeapInv
    <3> QED  BY <3>2, <3>3
  <2>4. ptr[l] \in InUse(store, ptr')
    <3>1. store[ip] = ptr[l] /\ ptr[l] # NoProfile
      BY <1>1, <2>1, IPConstants DEF IPAssumption
    <3> QED  BY <3>1 DEF InUse
  <2>5. prof'[ptr[l]].last = verdict[l].score
    BY <2>1, <2>2, <2>3, <2>4 DEF Ends, Collected
  <2>6. store'[ip] # NoProfile /\ GateScore(ip)' = verdict[l].score
    BY <1>1, <2>1, <2>5, IPConstants DEF GateScore, IPAssumption
  <2>7. MakeDecision(verdict[l].score) = "ban"
    BY <2>1, DecisionBands DEF Verdict
  <2> QED  BY <2>6, <2>7 DEF Gatekeeper, Served
<1>2. IInv /\ IInv' /\ [Next]_ipVars => [A]_ipVars
  BY <1>1
<1> QED  BY <1>2, Invariance, PTL DEF Spec, LearnedAfterExploitBans

-----------------------------------------------------------------------------
(* The engine implements Reputation.                                       *)

\* GatekeeperSeesView, after a step.
LEMMA GatekeeperWillSeeView ==
  ASSUME NEW ip \in IPs
  PROVE  /\ Gatekeeper(ip)' = StandingOf(View(ip)')
         /\ EverBlocked(ip)' <=> View(ip)'.blocked
<1>1. CASE store'[ip] = NoProfile
  <2>1. NewIPProfile.last = InitialScore /\ NewIPProfile.blocked = FALSE
    BY DEF NewIPProfile
  <2> QED  BY <1>1, <2>1 DEF Gatekeeper, GateScore, EverBlocked, StandingOf, View
<1>2. CASE store'[ip] # NoProfile
  BY <1>2 DEF Gatekeeper, GateScore, EverBlocked, StandingOf, View
<1> QED  BY <1>1, <1>2

\* What the Gatekeeper knows of ip is the same after the step.
SameView(ip) ==
  View(ip)'.last = View(ip).last /\ (View(ip)'.blocked <=> View(ip).blocked)

\* The two mapped variables, before and after a step, address by address.
LEMMA MappedState ==
  /\ Standings = [ip \in IPs |-> Standings[ip]] /\ Flags \in [IPs -> BOOLEAN]
  /\ Standings' = [ip \in IPs |-> Standings'[ip]] /\ Flags' \in [IPs -> BOOLEAN]
  /\ \A ip \in IPs : /\ Standings[ip] = StandingOf(View(ip))
                     /\ Flags[ip] <=> View(ip).blocked
                     /\ Standings'[ip] = StandingOf(View(ip)')
                     /\ Flags'[ip] <=> View(ip)'.blocked
<1>1. \A ip \in IPs : Standings[ip] = Gatekeeper(ip) /\ Standings'[ip] = Gatekeeper(ip)'
  BY DEF Standings
<1>2. Standings = [ip \in IPs |-> Standings[ip]] /\ Standings' = [ip \in IPs |-> Standings'[ip]]
  BY DEF Standings
<1>3. Flags \in [IPs -> BOOLEAN] /\ Flags' \in [IPs -> BOOLEAN]
  BY DEF Flags, EverBlocked
<1>4. ASSUME NEW ip \in IPs
      PROVE  /\ Standings[ip] = StandingOf(View(ip)) /\ Standings'[ip] = StandingOf(View(ip)')
             /\ Flags[ip] <=> View(ip).blocked
             /\ Flags'[ip] <=> View(ip)'.blocked
  <2>1. Standings[ip] = StandingOf(View(ip)) /\ Standings'[ip] = StandingOf(View(ip)')
    BY <1>1, GatekeeperSeesView, GatekeeperWillSeeView
  <2>2. Flags[ip] <=> View(ip).blocked
    <3>1. Flags[ip] <=> EverBlocked(ip)
      BY DEF Flags
    <3>2. EverBlocked(ip) <=> View(ip).blocked
      BY GatekeeperSeesView
    <3> QED  BY <3>1, <3>2
  <2>3. Flags'[ip] <=> View(ip)'.blocked
    <3>1. Flags'[ip] <=> EverBlocked(ip)'
      BY DEF Flags
    <3>2. EverBlocked(ip)' <=> View(ip)'.blocked
      BY GatekeeperWillSeeView
    <3> QED  BY <3>1, <3>2
  <2> QED  BY <2>1, <2>2, <2>3
<1> QED  BY <1>2, <1>3, <1>4

LEMMA SameViewSameStanding ==
  ASSUME NEW ip \in IPs, SameView(ip)
  PROVE  Standings'[ip] = Standings[ip] /\ Flags'[ip] = Flags[ip]
<1>1. StandingOf(View(ip)') = StandingOf(View(ip))
  BY DEF SameView, StandingOf
<1> QED  BY <1>1, MappedState DEF SameView

\* Nobody's view changes: the abstract state stutters.
LEMMA Stutters ==
  ASSUME \A ip \in IPs : SameView(ip)
  PROVE  UNCHANGED Reputation_!repVars
<1>1. \A ip \in IPs : Standings'[ip] = Standings[ip] /\ Flags'[ip] = Flags[ip]
  BY SameViewSameStanding
<1>2. Standings' = Standings
  BY <1>1, MappedState
<1>3. Flags' = Flags
  BY <1>1, MappedState
<1> QED  BY <1>2, <1>3 DEF Reputation_!repVars

\* One address is judged: its new standing rejects only together with the
\* flag, and the flag comes only with a rejection.
LEMMA Judges ==
  ASSUME NEW ip \in IPs, View(ip)' \in Profile,
         \A i \in IPs : i # ip => SameView(i),
         View(ip)'.blocked <=> View(ip).blocked \/ View(ip)'.last < 300
  PROVE  Reputation_!Next
<1> DEFINE d == StandingOf(View(ip)')
<1>1. /\ d \in Reputation_!Standings
      /\ d \in {"block", "ban"} <=> View(ip)'.last < 300
      /\ View(ip)'.blocked => d \notin {"allow", "allow+stricter"}
  BY StandingBands DEF Reputation_!Standings, Decisions, Rejected, Served
<1> HIDE DEF d
<1>2. Standings'[ip] = d
  BY MappedState DEF d
<1>3. Flags[ip] => d \notin {"allow", "allow+stricter"}
  BY <1>1, MappedState
<1>4. Flags'[ip] = (Flags[ip] \/ d \in {"block", "ban"})
  BY <1>1, MappedState
<1>5. \A i \in IPs : i # ip => Standings'[i] = Standings[i] /\ Flags'[i] = Flags[i]
  BY SameViewSameStanding
<1>6. Standings' = [Standings EXCEPT ![ip] = d]
  BY <1>2, <1>5, MappedState
<1>7. Flags' = [Flags EXCEPT ![ip] = Flags[ip] \/ d \in {"block", "ban"}]
  BY <1>4, <1>5, MappedState
<1>8. Reputation_!Judge(ip, d)
  BY <1>3, <1>6, <1>7 DEF Reputation_!Judge
<1> QED  BY <1>1, <1>8 DEF Reputation_!Next

\* The addresses in S become strangers.
LEMMA Forgets ==
  ASSUME NEW S \in SUBSET IPs,
         \A ip \in S : store'[ip] = NoProfile,
         \A ip \in IPs \ S : SameView(ip)
  PROVE  Reputation_!Next
<1>1. ASSUME NEW ip \in S
      PROVE  Standings'[ip] = Reputation_!Stranger /\ ~Flags'[ip]
  <2>1. Gatekeeper(ip)' = "allow+stricter" /\ ~EverBlocked(ip)'
    BY DEF Gatekeeper, GateScore, EverBlocked, MakeDecision, InitialScore
  <2> QED  BY <2>1 DEF Standings, Flags, Reputation_!Stranger
<1>2. \A ip \in IPs \ S : Standings'[ip] = Standings[ip] /\ Flags'[ip] = Flags[ip]
  BY SameViewSameStanding
<1>3. Standings' = [ip \in IPs |-> IF ip \in S THEN Reputation_!Stranger ELSE Standings[ip]]
  BY <1>1, <1>2, MappedState
<1>4. Flags' = [ip \in IPs |-> ip \notin S /\ Flags[ip]]
  BY <1>1, <1>2, MappedState
<1>5. Reputation_!Forget(S)
  BY <1>3, <1>4 DEF Reputation_!Forget
<1> QED  BY <1>5 DEF Reputation_!Next

\* Loading a profile changes nobody's view: a profile taken from the unused
\* objects is as good as new.
LEMMA LoadsKeepsViews ==
  ASSUME IInv, NEW ip \in IPs, NEW q \in ProfileIds, Loads(ip, q)
  PROVE  /\ prof[q] = View(ip)
         /\ \A i \in IPs : i # ip => store'[i] = store[i] /\ store[i] # q
<1>1. q # NoProfile
  BY IPConstants DEF IPAssumption
<1>2. CASE store[ip] = q
  BY <1>1, <1>2, LoadsKeepsStore DEF View, IInv, StoreInv
<1>3. CASE store[ip] = NoProfile /\ q \notin InUse(store, ptr)
  BY <1>3, LoadsKeepsStore DEF View, IInv, HeapInv, InUse
<1> QED  BY <1>2, <1>3 DEF Loads

\* A writer leaves the profile p for ip, its other fields being of no concern.
LEMMA WriteJudges ==
  ASSUME IInv, NEW ip \in IPs, NEW q \in ProfileIds, Loads(ip, q),
         NEW p \in Profile, prof' = [prof EXCEPT ![q] = p],
         p.blocked <=> prof[q].blocked \/ p.last < 300
  PROVE  Reputation_!Next
<1>1. q # NoProfile /\ store'[ip] = q
  BY IPConstants, LoadsKeepsStore DEF IPAssumption, IInv
<1>2. View(ip) = prof[q] /\ \A i \in IPs : i # ip => store'[i] = store[i] /\ store[i] # q
  BY LoadsKeepsViews
<1>3. View(ip)' = p
  BY <1>1 DEF View, IInv, HeapInv
<1>4. ASSUME NEW i \in IPs, i # ip PROVE View(i)' = View(i)
  BY <1>2, <1>4 DEF View, IInv, StoreInv, HeapInv
<1>5. \A i \in IPs : i # ip => SameView(i)
  BY <1>4 DEF SameView
<1> QED  BY <1>2, <1>3, <1>5, Judges

\* A writer that leaves score and flag alone changes nobody's view.
LEMMA WriteStutters ==
  ASSUME IInv, NEW ip \in IPs, NEW q \in ProfileIds, Loads(ip, q),
         NEW p \in Profile, prof' = [prof EXCEPT ![q] = p],
         p.last = prof[q].last, p.blocked = prof[q].blocked
  PROVE  UNCHANGED Reputation_!repVars
<1>1. q # NoProfile /\ store'[ip] = q
  BY IPConstants, LoadsKeepsStore DEF IPAssumption, IInv
<1>2. View(ip) = prof[q] /\ \A i \in IPs : i # ip => store'[i] = store[i] /\ store[i] # q
  BY LoadsKeepsViews
<1>3. View(ip)' = p
  BY <1>1 DEF View, IInv, HeapInv
<1>4. ASSUME NEW i \in IPs, i # ip PROVE View(i)' = View(i)
  BY <1>2, <1>4 DEF View, IInv, StoreInv, HeapInv
<1>5. \A i \in IPs : SameView(i)
  BY <1>2, <1>3, <1>4 DEF SameView
<1> QED  BY <1>5, Stutters

\* A CRITICAL hit judges its address, a lesser one nobody.
LEMMA RASPHitRefines ==
  ASSUME IInv, NEW ip \in IPs, NEW sev \in Severity, RASPHitIP(ip, sev)
  PROVE  Reputation_!Next \/ UNCHANGED Reputation_!repVars
<1>1. PICK q \in ProfileIds :
        Loads(ip, q) /\ prof' = [prof EXCEPT ![q] = WithRASPHit(@, sev)]
  BY DEF RASPHitIP, Writes
<1>2. prof[q] \in Profile /\ Sound(prof[q])
  BY DEF IInv, HeapInv
<1>3. PICK p \in Profile : p = WithRASPHit(prof[q], sev)
  BY <1>2, RASPHitIsSound DEF Sound
<1>4. prof' = [prof EXCEPT ![q] = p]
  BY <1>1, <1>3
<1>5. CASE sev = "critical"
  <2>1. p.last = 0 /\ p.blocked
    BY <1>2, <1>3, <1>5 DEF WithRASPHit, Profile
  <2>2. p.blocked <=> prof[q].blocked \/ p.last < 300
    BY <2>1
  <2>3. Reputation_!Next
    BY <1>1, <1>4, <2>2, WriteJudges
  <2> QED  BY <2>3
<1>6. CASE sev # "critical"
  <2>1. p.last = prof[q].last /\ p.blocked = prof[q].blocked
    BY <1>2, <1>3, <1>6 DEF WithRASPHit, Profile
  <2> QED  BY <1>1, <1>4, <2>1, WriteStutters
<1> QED  BY <1>5, <1>6

LEMMA ChallengeSolvedRefines ==
  ASSUME IInv, NEW ip \in IPs, ChallengeSolvedIP(ip)
  PROVE  UNCHANGED Reputation_!repVars
<1>1. PICK q \in ProfileIds :
        Loads(ip, q) /\ prof' = [prof EXCEPT ![q] = [@ EXCEPT !.solved = TRUE]]
  BY DEF ChallengeSolvedIP, Writes
<1>2. prof[q] \in Profile
  BY DEF IInv, HeapInv
<1>3. PICK p \in Profile : p = [prof[q] EXCEPT !.solved = TRUE]
  BY <1>2 DEF Profile
<1>4. p.last = prof[q].last /\ p.blocked = prof[q].blocked
  BY <1>2, <1>3 DEF Profile
<1> QED  BY <1>1, <1>3, <1>4, WriteStutters

LEMMA Tier1CorrectionRefines ==
  ASSUME IInv, NEW ip \in IPs, NEW delta \in {-CorrectionDelta, CorrectionDelta},
         Tier1CorrectionIP(ip, delta)
  PROVE  UNCHANGED Reputation_!repVars
<1>1. PICK q \in ProfileIds :
        Loads(ip, q) /\ prof' = [prof EXCEPT ![q] = Corrected(@, delta)]
  BY DEF Tier1CorrectionIP, Writes
<1>2. prof[q] \in Profile /\ Sound(prof[q]) /\ delta \in Int
  BY IPConstants DEF IInv, HeapInv, IPAssumption
<1>3. PICK p \in Profile : p = Corrected(prof[q], delta)
  BY <1>2, CorrectionIsSound DEF Sound
<1>4. p.last = prof[q].last /\ p.blocked = prof[q].blocked
  BY <1>2, <1>3 DEF Corrected, Profile
<1> QED  BY <1>1, <1>3, <1>4, WriteStutters

\* A step that leaves the store alone and every stored profile's score and flag.
LEMMA HeapStutters ==
  ASSUME IInv, UNCHANGED store,
         \A q \in ProfileIds : q \in InUse(store, ptr') =>
           /\ prof'[q].last = prof[q].last
           /\ prof'[q].blocked <=> prof[q].blocked
  PROVE  UNCHANGED Reputation_!repVars
<1>1. ASSUME NEW ip \in IPs PROVE SameView(ip)
  <2>1. CASE store[ip] = NoProfile
    BY <2>1 DEF SameView, View
  <2>2. CASE store[ip] # NoProfile
    <3>1. store[ip] \in ProfileIds /\ store[ip] \in InUse(store, ptr')
      BY <2>2 DEF IInv, StoreInv, InUse
    <3> QED  BY <2>2, <3>1 DEF SameView, View
  <2> QED  BY <2>1, <2>2
<1> QED  BY <1>1, Stutters

\* The learner's Update judges the address it is about, if the profile is
\* still that address's; an orphaned profile judges nobody.
LEMMA UpdateProfileRefines ==
  ASSUME IInv, IInv', NEW l \in Learners, UpdateProfile(l)
  PROVE  Reputation_!Next \/ UNCHANGED Reputation_!repVars
<1> DEFINE q == ptr[l]
<1>1. /\ q \in ProfileIds /\ prof[q] \in Profile /\ verdict[l] \in Verdict
      /\ pc[l] = "update" /\ UNCHANGED store
  BY RunningLearner DEF UpdateProfile
<1>2. PICK p, heap :
        /\ \E expired, kept : p = Updated(prof[q], job[l].ev, verdict[l], expired, kept)
        /\ heap = [prof EXCEPT ![q] = p]
        /\ \/ prof' = Collected(heap, store, ptr')
           \/ prof' = heap
  BY DEF UpdateProfile, Ends
<1>3. p.last = verdict[l].score /\ (p.blocked <=> prof[q].blocked \/ verdict[l].decision \in Rejected)
  BY <1>1, <1>2 DEF Updated, Profile
<1>4. p.blocked <=> prof[q].blocked \/ p.last < 300
  BY <1>1, <1>3 DEF IInv, LearnerInv, Carries
<1>5. heap[q] = p /\ \A r \in ProfileIds : r # q => heap[r] = prof[r]
  BY <1>1, <1>2 DEF IInv, HeapInv
<1>6. \A r \in ProfileIds : r \in InUse(store, ptr') => prof'[r] = heap[r]
  BY <1>2 DEF Collected
<1>7. CASE \E ip \in IPs : store[ip] = q
  <2>1. PICK ip \in IPs : store[ip] = q
    BY <1>7
  <2>2. q # NoProfile /\ q \in InUse(store, ptr')
    BY <1>1, <2>1, IPConstants DEF InUse, IPAssumption
  <2>3. View(ip) = prof[q] /\ View(ip)' = p
    BY <1>1, <1>5, <1>6, <2>1, <2>2 DEF View
  <2>4. View(ip)' \in Profile
    BY <1>1, <2>1, <2>2 DEF View, IInv, HeapInv
  <2>5. ASSUME NEW i \in IPs, i # ip PROVE SameView(i)
    <3>1. CASE store[i] = NoProfile
      BY <1>1, <3>1 DEF SameView, View
    <3>2. CASE store[i] # NoProfile
      <4>1. store[i] \in ProfileIds /\ store[i] # q /\ store[i] \in InUse(store, ptr')
        BY <2>1, <2>5, <3>2 DEF IInv, StoreInv, InUse
      <4> QED  BY <1>1, <1>5, <1>6, <3>2, <4>1 DEF SameView, View
    <3> QED  BY <3>1, <3>2
  <2> QED  BY <1>4, <2>3, <2>4, <2>5, Judges
<1>8. CASE ~ \E ip \in IPs : store[ip] = q
  <2>1. ASSUME NEW i \in IPs PROVE SameView(i)
    <3>1. CASE store[i] = NoProfile
      BY <1>1, <3>1 DEF SameView, View
    <3>2. CASE store[i] # NoProfile
      <4>1. store[i] \in ProfileIds /\ store[i] # q /\ store[i] \in InUse(store, ptr')
        BY <1>8, <3>2 DEF IInv, StoreInv, InUse
      <4> QED  BY <1>1, <1>5, <1>6, <3>2, <4>1 DEF SameView, View
    <3> QED  BY <3>1, <3>2
  <2> QED  BY <2>1, Stutters
<1> QED  BY <1>7, <1>8

LEMMA LearnerRefines ==
  ASSUME IInv, IInv', NEW l \in Learners, LearnerStep(l)
  PROVE  Reputation_!Next \/ UNCHANGED Reputation_!repVars
<1>1. CASE ScoreEvent(l) \/ ReadLoginAttempts(l) \/ CheckHardOverrides(l)
             \/ ApplyPolicyOverrides(l)
  BY <1>1, HeapStutters DEF ScoreEvent, ReadLoginAttempts, CheckHardOverrides,
                            ApplyPolicyOverrides
<1>2. CASE BumpLoginAttempts(l)
  <2>1. \A q \in ProfileIds : prof'[q].last = prof[q].last /\ prof'[q].blocked = prof[q].blocked
    BY <1>2 DEF BumpLoginAttempts, IInv, HeapInv, Profile
  <2> QED  BY <1>2, <2>1, HeapStutters DEF BumpLoginAttempts
<1>3. CASE UpdateProfile(l)
  BY <1>3, UpdateProfileRefines
<1>4. CASE ReturnFromUserLayer(l)
  BY <1>4, HeapStutters DEF ReturnFromUserLayer, Ends, Collected
<1> QED  BY <1>1, <1>2, <1>3, <1>4 DEF LearnerStep

LEMMA LoadRefines ==
  ASSUME IInv, NEW ip \in IPs, NEW q \in ProfileIds, Loads(ip, q), UNCHANGED prof
  PROVE  UNCHANGED Reputation_!repVars
<1>1. PICK p \in Profile : p = prof[q] /\ prof = [prof EXCEPT ![q] = p]
  BY DEF IInv, HeapInv
<1>2. prof' = [prof EXCEPT ![q] = p]
  BY <1>1
<1> QED  BY <1>1, <1>2, WriteStutters

LEMMA HourPassesRefines ==
  ASSUME IInv, HourPasses
  PROVE  UNCHANGED Reputation_!repVars
<1>1. \A q \in ProfileIds : prof'[q].last = prof[q].last /\ prof'[q].blocked = prof[q].blocked
  BY DEF HourPasses, IInv, HeapInv, Profile
<1> QED  BY <1>1, HeapStutters DEF HourPasses

\* Evicted and reset addresses are strangers again.
LEMMA ForgettingRefines ==
  ASSUME IInv, IInv', NEW S \in SUBSET IPs, prof' = Collected(prof, store', ptr),
         store' = [ip \in IPs |-> IF ip \in S THEN NoProfile ELSE store[ip]]
  PROVE  Reputation_!Next
<1>1. ASSUME NEW ip \in IPs \ S PROVE SameView(ip)
  <2>1. store'[ip] = store[ip]
    OBVIOUS
  <2>2. CASE store[ip] # NoProfile
    <3>1. store[ip] \in ProfileIds /\ store[ip] \in InUse(store', ptr)
      BY <2>1, <2>2 DEF IInv, StoreInv, InUse
    <3> QED  BY <2>1, <2>2, <3>1 DEF SameView, View, Collected
  <2>3. CASE store[ip] = NoProfile
    BY <2>1, <2>3 DEF SameView, View
  <2> QED  BY <2>2, <2>3
<1> QED  BY <1>1, Forgets

LEMMA InitRefines == Init => Reputation_!Init
<1> SUFFICES ASSUME Init PROVE Reputation_!Init
  OBVIOUS
<1>1. ASSUME NEW ip \in IPs
      PROVE  Gatekeeper(ip) = Reputation_!Stranger /\ ~EverBlocked(ip)
  BY DEF Init, Gatekeeper, GateScore, EverBlocked, MakeDecision, InitialScore,
         Reputation_!Stranger
<1>2. Standings = [ip \in IPs |-> Reputation_!Stranger]
  BY <1>1 DEF Standings
<1>3. Flags = [ip \in IPs |-> FALSE]
  <2>1. Flags \in [IPs -> BOOLEAN] /\ \A ip \in IPs : Flags[ip] = FALSE
    BY <1>1, MappedState DEF Flags
  <2> QED  BY <2>1
<1> QED  BY <1>2, <1>3 DEF Reputation_!Init

LEMMA NextRefines ==
  IInv /\ IInv' /\ [Next]_ipVars => [Reputation_!Next]_Reputation_!repVars
<1> SUFFICES ASSUME IInv, IInv', [Next]_ipVars
             PROVE  Reputation_!Next \/ UNCHANGED Reputation_!repVars
  OBVIOUS
<1>1. CASE UNCHANGED ipVars
  BY <1>1, HeapStutters DEF ipVars
<1>2. ASSUME NEW ip \in IPs, GatekeeperLoad(ip) PROVE UNCHANGED Reputation_!repVars
  BY <1>2, LoadRefines DEF GatekeeperLoad
<1>3. ASSUME NEW l \in Learners, NEW ip \in IPs, NEW e \in Events, LearnerLoad(l, ip, e)
      PROVE  UNCHANGED Reputation_!repVars
  BY <1>3, LoadRefines DEF LearnerLoad
<1>4. ASSUME NEW ip \in IPs, Evict(ip) PROVE Reputation_!Next
  <2>1. store' = [i \in IPs |-> IF i \in {ip} THEN NoProfile ELSE store[i]]
    BY <1>4 DEF Evict, IInv, StoreInv
  <2> QED  BY <1>4, <2>1, ForgettingRefines DEF Evict
<1>5. CASE ResetAllData
  <2>1. store' = [i \in IPs |-> IF i \in IPs THEN NoProfile ELSE store[i]]
    BY <1>5 DEF ResetAllData
  <2> QED  BY <1>5, <2>1, ForgettingRefines DEF ResetAllData
<1> QED
  BY <1>1, <1>2, <1>3, <1>4, <1>5, LearnerRefines, RASPHitRefines, ChallengeSolvedRefines,
     Tier1CorrectionRefines, HourPassesRefines DEF Next

\* The interleaved engine keeps Reputation's promise: a rejection is never
\* followed by unchallenged service before the address is forgotten.
THEOREM EngineRefinesReputation == Spec => RefinesReputation
BY Invariance, InitRefines, NextRefines, PTL DEF Spec, RefinesReputation, Reputation_!Spec

(* ----------------------- Part two: the engine -------------------------- *)

-----------------------------------------------------------------------------
(* The inductive invariant.                                                *)

\* What holds of every account profile.
UserSound(u) == u \in UserProfile /\ (u.confirmed => u.everBlocked)

UserStoreInv ==
  /\ ustore \in [Users -> UserIds \cup {NoProfile}]
  /\ \A a, b \in Users : ustore[a] = ustore[b] /\ ustore[a] # NoProfile => a = b

UserHeapInv ==
  /\ uprof \in [UserIds -> UserProfile]
  /\ \A v \in UserIds : UserSound(uprof[v])
  /\ \A v \in UserIds : v \notin UserInUse(ustore, uptr) => uprof[v] = NewUserProfile

UserLearnerInv ==
  /\ upc \in [Learners -> UserPC]
  /\ uptr \in [Learners -> UserIds \cup {NoProfile}]
  /\ usig \in [Learners -> Signals]
  /\ uval \in [Learners -> UserVal]
  /\ \A l \in Learners : upc[l] # "off" <=> uptr[l] # NoProfile
  /\ \A l \in Learners : upc[l] # "off" => pc[l] = "user"

TailInv == tail \in [Writers -> UserHalf \cup {NoTail}]

\* Learner l will flag profile v: it has begun to store a score and has yet to
\* read it back, or has read one in the block or ban band.
Owes(l, v) ==
  /\ uptr[l] = v
  /\ upc[l] \in Storing \cup {"written"} \/ (upc[l] = "final" /\ uval[l].final < 300)

\* A rejecting score without the flag is somebody's debt.
DebtInv ==
  \A v \in UserIds :
    uprof[v].score < 300 /\ ~uprof[v].everBlocked => \E l \in Learners : Owes(l, v)

UserInv == UserStoreInv /\ UserHeapInv /\ UserLearnerInv /\ TailInv /\ DebtInv

EngineInv == IInv /\ UserInv

-----------------------------------------------------------------------------
(* Facts about the scoring operators of the user layer.                    *)

LEMMA UserRawInRange ==
  ASSUME NEW ip \in Score, NEW penalty \in 0..100, NEW boost \in 0..100
  PROVE  UserRaw(ip, penalty, boost) \in Score
<1>1. PICK risk \in Int : risk = ((1000 - ip) * 2) \div 5 + 6 * penalty - 3 * boost
  BY DEF Score
<1>2. PICK base \in Score : base = 1000 - ClampScore(risk)
  BY <1>1 DEF ClampScore, Score
<1> QED  BY <1>1, <1>2 DEF UserRaw

LEMMA CorrectionsInRange ==
  ASSUME NEW raw \in Score, NEW ewma \in 0..100
  PROVE  ClampScore(raw + 15) \in Score /\ ClampScore(raw + Tier1Delta(ewma)) \in Score
BY DEF ClampScore, Tier1Delta, Score

\* The strictness of a score.
LEMMA StrictnessBands ==
  ASSUME NEW s \in Score
  PROVE  /\ Strictness(MakeDecision(s)) \in 0..4
         /\ Strictness(MakeDecision(s)) <= 0 <=> s >= 800
         /\ Strictness(MakeDecision(s)) <= 1 <=> s >= 500
         /\ Strictness(MakeDecision(s)) <= 2 <=> s >= 300
         /\ Strictness(MakeDecision(s)) <= 3 <=> s >= 100
<1>1. CASE s >= 800
  BY <1>1 DEF MakeDecision, Strictness, Score
<1>2. CASE s >= 500 /\ s < 800
  BY <1>2 DEF MakeDecision, Strictness, Score
<1>3. CASE s >= 300 /\ s < 500
  BY <1>3 DEF MakeDecision, Strictness, Score
<1>4. CASE s >= 100 /\ s < 300
  BY <1>4 DEF MakeDecision, Strictness, Score
<1>5. CASE s < 100
  BY <1>5 DEF MakeDecision, Strictness, Score
<1> QED  BY <1>1, <1>2, <1>3, <1>4, <1>5 DEF Score

\* One blend moves a score by one decision band at most, towards the strict
\* side: UpdateEWMA keeps 0.85 of the old score, and the rounding bridges no
\* band.
THEOREM BlendKeepsBand ==
  ASSUME NEW raw \in Score, NEW old \in Score, NEW new \in EWMA(raw, old)
  PROVE  Strictness(MakeDecision(new)) <= Strictness(MakeDecision(old)) + 1
<1>1. new \in Score /\ 100 * new >= 15 * raw + 85 * old - 58
  BY DEF EWMA, BlendsTo, Score
<1>2. 100 * new >= 85 * old - 58
  BY <1>1 DEF Score
<1>3. /\ old >= 800 => new >= 500
      /\ old >= 500 => new >= 300
      /\ old >= 300 => new >= 100
  BY <1>1, <1>2 DEF Score
<1>4. PICK a, b \in 0..4 :
        a = Strictness(MakeDecision(old)) /\ b = Strictness(MakeDecision(new))
  BY <1>1, StrictnessBands
<1> QED  BY <1>1, <1>3, <1>4, StrictnessBands

LEMMA NewUserProfileIsSound == UserSound(NewUserProfile)
BY Thresholds DEF UserSound, NewUserProfile, UserProfile, Score, InitialScore, ThresholdAssumption

-----------------------------------------------------------------------------
(* The IP layer inside the engine.                                         *)

\* A learner past the IP layer has a profile, an event and a verdict.
LEMMA InUserLayer ==
  ASSUME IInv, NEW l \in Learners, pc[l] = "user"
  PROVE  /\ ptr[l] \in ProfileIds /\ prof[ptr[l]] \in Profile
         /\ job[l].ev \in Event /\ verdict[l] \in Verdict
BY RunningLearner

LEMMA IPLayerIsIPStep ==
  ASSUME NEW l \in Learners, EngineLearnerStep(l)
  PROVE  [Next]_ipVars
<1>1. CASE IPLayerStep(l)
  BY <1>1 DEF IPLayerStep, Next, LearnerStep
<1>2. CASE FlagUser(l)
  BY <1>2 DEF FlagUser, Next, LearnerStep
<1>3. CASE UserLayerStep(l) /\ ~FlagUser(l)
  BY <1>3 DEF UserLayerStep, UserLoad, RecordLogin, ScoreUser, BoostUser, CorrectUser,
              Judge, CheckExploit, CheckFailures, CheckNewDevice, StoreOverride, ReadBack,
              WriteBack, BeginBlend, EndBlend, ReadFinalScore
<1> QED  BY <1>1, <1>2, <1>3 DEF EngineLearnerStep

LEMMA WriterIsIPStep ==
  ASSUME NEW w \in Writers, StartWriter(w) \/ FinishTail(w)
  PROVE  [Next]_ipVars
<1>1. CASE StartWriter(w)
  BY <1>1 DEF StartWriter, ProcessRASPEvent, RecordChallengeSolved, ApplyFeedback,
              ResetIPStore, Next
<1>2. CASE FinishTail(w)
  BY <1>2 DEF FinishTail, RASPHitUser, ChallengeSolvedUser, Tier1CorrectionUser,
              FinishWith, ResetUserStore
<1> QED  BY <1>1, <1>2

\* Every step of the engine is a step of the IP layer or leaves it alone.
LEMMA EngineStepIsIPStep ==
  ASSUME [EngineNext]_vars
  PROVE  [Next]_ipVars
<1>1. CASE UNCHANGED vars
  BY <1>1 DEF vars
<1>2. CASE \E l \in Learners, ip \in IPs, e \in Events : StartLearner(l, ip, e)
  BY <1>2 DEF StartLearner, Next
<1>3. CASE Background
  BY <1>3 DEF Background, GatekeeperUserLoad, Next
<1> QED  BY <1>1, <1>2, <1>3, IPLayerIsIPStep, WriterIsIPStep DEF EngineNext

\* Learners in the user layer stay there while others move in the IP layer.
LEMMA UserLayerStays ==
  ASSUME IInv, NEW l \in Learners, pc[l] = "user",
         \/ \E m \in Learners : IPLayerStep(m)
         \/ \E m \in Learners, ip \in IPs, e \in Events : LearnerLoad(m, ip, e)
         \/ UNCHANGED pc
  PROVE  pc'[l] = "user"
<1>1. ASSUME NEW m \in Learners, IPLayerStep(m) PROVE pc'[l] = "user"
  BY <1>1 DEF IPLayerStep, ScoreEvent, ReadLoginAttempts, BumpLoginAttempts,
              CheckHardOverrides, ApplyPolicyOverrides, UpdateProfile,
              Ends, Goto, IInv, LearnerInv
<1>2. ASSUME NEW m \in Learners, NEW ip \in IPs, NEW e \in Events, LearnerLoad(m, ip, e)
      PROVE  pc'[l] = "user"
  BY <1>2 DEF LearnerLoad, Goto, IInv, LearnerInv
<1> QED  BY <1>1, <1>2

\* A step of the IP layer keeps the invariant of the user layer.
LEMMA IPStepKeepsUserInv ==
  ASSUME UserInv, UNCHANGED uVars, TailInv',
         \A l \in Learners : pc[l] = "user" => pc'[l] = "user"
  PROVE  UserInv'
BY DEF uVars, UserInv, UserStoreInv, UserHeapInv, UserInUse, UserLearnerInv, DebtInv, Owes

-----------------------------------------------------------------------------
(* The store of accounts.                                                  *)

LEMMA UserLoadsKeepsStore ==
  ASSUME UserStoreInv, NEW u \in Users, NEW v \in UserIds, UserLoads(u, v)
  PROVE  /\ UserStoreInv'
         /\ ustore'[u] = v
         /\ \A x \in Users : x # u => ustore'[x] = ustore[x]
         /\ ustore[u] \in {v, NoProfile}
<1>1. CASE ustore[u] = v /\ UNCHANGED ustore
  BY <1>1 DEF UserStoreInv
<1>2. CASE /\ ustore[u] = NoProfile
           /\ v \notin UserInUse(ustore, uptr)
           /\ ustore' = [ustore EXCEPT ![u] = v]
  <2>1. \A x \in Users : ustore[x] # v
    BY <1>2 DEF UserInUse
  <2> QED  BY <1>2, <2>1 DEF UserStoreInv
<1> QED  BY <1>1, <1>2 DEF UserLoads

\* Whoever is not used after a load was not used before it.
LEMMA UserLoadsUses ==
  ASSUME UserStoreInv, NEW u \in Users, NEW v \in UserIds, UserLoads(u, v),
         NEW x \in UserIds, \A y \in Users : ustore'[y] # x
  PROVE  x # v /\ \A y \in Users : ustore[y] # x
<1>1. ustore'[u] = v /\ (\A y \in Users : y # u => ustore'[y] = ustore[y])
        /\ ustore[u] \in {v, NoProfile}
  BY UserLoadsKeepsStore
<1>2. x # NoProfile
  BY UserConstants DEF UserAssumption
<1> QED  BY <1>1, <1>2

\* A writer that loads u's profile v and leaves in it a sound profile that is
\* flagged, or has the score and the flag it had, preserves the invariant.
LEMMA UserWriteKeepsInv ==
  ASSUME UserInv, NEW u \in Users, NEW v \in UserIds, UserLoads(u, v),
         NEW p, UserSound(p),
         p.everBlocked \/ (p.score = uprof[v].score /\ p.everBlocked = uprof[v].everBlocked),
         uprof' = [uprof EXCEPT ![v] = p], TailInv',
         UNCHANGED <<pc, upc, uptr, usig, uval>>
  PROVE  UserInv'
<1>1. UserStoreInv' /\ ustore'[u] = v
  BY UserLoadsKeepsStore DEF UserInv
<1>2. UserHeapInv'
  <2>1. uprof' \in [UserIds -> UserProfile] /\ \A x \in UserIds : UserSound(uprof'[x])
    BY DEF UserInv, UserHeapInv, UserSound
  <2>2. ASSUME NEW x \in UserIds, x \notin UserInUse(ustore', uptr')
        PROVE  uprof'[x] = NewUserProfile
    <3>1. \A y \in Users : ustore'[y] # x
      BY <2>2 DEF UserInUse
    <3>2. x # v /\ \A y \in Users : ustore[y] # x
      BY <3>1, UserLoadsUses DEF UserInv
    <3>3. x \notin UserInUse(ustore, uptr)
      BY <2>2, <3>2 DEF UserInUse
    <3> QED  BY <3>2, <3>3 DEF UserInv, UserHeapInv
  <2> QED  BY <2>1, <2>2 DEF UserHeapInv
<1>3. UserLearnerInv'
  BY DEF UserInv, UserLearnerInv
<1>4. DebtInv'
  <2>1. ASSUME NEW x \in UserIds, uprof'[x].score < 300, ~uprof'[x].everBlocked
        PROVE  uprof[x].score < 300 /\ ~uprof[x].everBlocked
    BY <2>1 DEF UserInv, UserHeapInv
  <2> QED  BY <2>1 DEF UserInv, DebtInv, Owes
<1> QED  BY <1>1, <1>2, <1>3, <1>4 DEF UserInv

\* A learner that writes a sound profile to the object it holds keeps the heap.
LEMMA OwnWriteKeepsHeap ==
  ASSUME UserInv, NEW l \in Learners, NEW p, UserSound(p),
         uprof' = [uprof EXCEPT ![uptr[l]] = p], UNCHANGED <<ustore, uptr>>
  PROVE  UserHeapInv' /\ UserStoreInv'
<1>1. uptr[l] \in UserInUse(ustore, uptr)
  BY DEF UserInUse
<1> QED  BY <1>1 DEF UserInv, UserHeapInv, UserStoreInv, UserSound, UserInUse

\* Reclaiming unused profiles leaves a sound heap.
LEMMA UserCollectedIsSound ==
  ASSUME NEW heap \in [UserIds -> UserProfile], \A v \in UserIds : UserSound(heap[v]),
         NEW st, NEW pt
  PROVE  /\ UserCollected(heap, st, pt) \in [UserIds -> UserProfile]
         /\ \A v \in UserIds : UserSound(UserCollected(heap, st, pt)[v])
         /\ \A v \in UserIds :
              v \notin UserInUse(st, pt) => UserCollected(heap, st, pt)[v] = NewUserProfile
         /\ \A v \in UserIds :
              v \in UserInUse(st, pt) => UserCollected(heap, st, pt)[v] = heap[v]
<1>1. NewUserProfile \in UserProfile
  BY NewUserProfileIsSound DEF UserSound
<1> QED  BY <1>1, NewUserProfileIsSound DEF UserCollected

\* A profile in the hands of a learner.
LEMMA HeldProfile ==
  ASSUME UserInv, NEW l \in Learners, upc[l] # "off"
  PROVE  /\ uptr[l] \in UserIds /\ uprof[uptr[l]] \in UserProfile
         /\ UserSound(uprof[uptr[l]]) /\ pc[l] = "user"
BY DEF UserInv, UserLearnerInv, UserHeapInv

\* A learner of the user layer that moves on without touching a score or a flag,
\* and is nobody's debtor before it moves.
LEMMA UserMoves ==
  ASSUME UserInv, NEW l \in Learners, NEW there \in UserPC \ {"off"},
         upc[l] \in Judging \ {"off"},
         upc' = [upc EXCEPT ![l] = there],
         UserHeapInv', UserStoreInv',
         \A v \in UserIds : uprof'[v].score = uprof[v].score
                              /\ uprof'[v].everBlocked = uprof[v].everBlocked,
         usig' \in [Learners -> Signals], uval' \in [Learners -> UserVal],
         \A m \in Learners : m # l => uval'[m] = uval[m],
         UNCHANGED <<pc, uptr, tail>>
  PROVE  UserInv'
<1>1. UserLearnerInv'
  BY DEF UserInv, UserLearnerInv
<1>2. ASSUME NEW m \in Learners, NEW v \in UserIds, Owes(m, v) PROVE Owes(m, v)'
  <2>1. m # l
    BY <1>2 DEF Owes, Judging, Storing
  <2> QED  BY <1>2, <2>1 DEF Owes, UserInv, UserLearnerInv
<1>3. DebtInv'
  BY <1>2 DEF UserInv, DebtInv
<1> QED  BY <1>1, <1>3 DEF UserInv, TailInv

\* Such a learner that leaves the profiles alone, whatever it makes of its raw
\* score and its override.
LEMMA UserJudges ==
  ASSUME UserInv, NEW l \in Learners, NEW there \in UserPC \ {"off"},
         upc[l] \in Judging \ {"off"}, upc' = [upc EXCEPT ![l] = there],
         NEW raw \in Score, NEW override \in Score \cup {NoOverride},
         uval' = [uval EXCEPT ![l].raw = raw, ![l].override = override],
         UNCHANGED <<pc, ustore, uprof, uptr, usig, tail>>
  PROVE  UserInv'
<1>1. uval \in [Learners -> UserVal] /\ usig' \in [Learners -> Signals]
  BY DEF UserInv, UserLearnerInv
<1>2. uval' \in [Learners -> UserVal] /\ \A m \in Learners : m # l => uval'[m] = uval[m]
  BY <1>1 DEF UserVal
<1>3. UserHeapInv' /\ UserStoreInv'
  BY DEF UserInv, UserHeapInv, UserStoreInv, UserInUse
<1> QED  BY <1>1, <1>2, <1>3, UserMoves

\* A learner that stores a score, or is about to read back what it stored, owes
\* its profile the flag from here on.
LEMMA UserStores ==
  ASSUME UserInv, NEW l \in Learners, NEW there \in Storing \cup {"written"},
         upc[l] # "off", upc' = [upc EXCEPT ![l] = there],
         NEW s \in Score, uprof' = [uprof EXCEPT ![uptr[l]].score = s],
         uval' \in [Learners -> UserVal], \A m \in Learners : m # l => uval'[m] = uval[m],
         UNCHANGED <<pc, ustore, uptr, usig, tail>>
  PROVE  UserInv'
<1> DEFINE u == uprof[uptr[l]]
<1>1. uptr[l] \in UserIds /\ u \in UserProfile /\ UserSound(u)
  BY HeldProfile
<1>2. PICK p : p = [u EXCEPT !.score = s]
  OBVIOUS
<1>3. UserSound(p) /\ uprof' = [uprof EXCEPT ![uptr[l]] = p]
  BY <1>1, <1>2 DEF UserSound, UserProfile, UserInv, UserHeapInv
<1>4. UserHeapInv' /\ UserStoreInv'
  BY <1>3, OwnWriteKeepsHeap
<1>5. there \in UserPC \ {"off"}
  BY DEF UserPC, Storing
<1>6. UserLearnerInv'
  BY <1>5 DEF UserInv, UserLearnerInv
<1>7. Owes(l, uptr[l])'
  BY DEF Owes, UserInv, UserLearnerInv
<1>8. ASSUME NEW v \in UserIds, v # uptr[l], NEW m \in Learners, Owes(m, v)
      PROVE  Owes(m, v)'
  BY <1>8 DEF Owes, UserInv, UserLearnerInv
<1>9. \A v \in UserIds : v # uptr[l] => uprof'[v] = uprof[v]
  BY <1>3 DEF UserInv, UserHeapInv
<1>10. DebtInv'
  BY <1>7, <1>8, <1>9 DEF UserInv, DebtInv
<1> QED  BY <1>4, <1>6, <1>10 DEF UserInv, TailInv

-----------------------------------------------------------------------------
(* The steps of a learner in the user layer.                               *)

LEMMA UserLoadStep ==
  ASSUME EngineInv, NEW l \in Learners, UserLoad(l)
  PROVE  UserInv'
<1>1. /\ pc[l] = "user" /\ upc[l] = "off" /\ upc' = [upc EXCEPT ![l] = "loaded"]
      /\ UNCHANGED <<pc, uprof, uval, tail>>
  BY DEF UserLoad, UserGoto, ipVars
<1>2. PICK v \in UserIds :
        /\ UserLoads(job[l].ev.user, v)
        /\ uptr' = [uptr EXCEPT ![l] = v]
        /\ usig' = [usig EXCEPT ![l] =
                      [login      |-> job[l].ev.form # "none",
                       newCountry |-> job[l].ev.country \notin uprof[v].countries,
                       newJA4     |-> FALSE]]
  BY DEF UserLoad
<1> DEFINE s == [login      |-> job[l].ev.form # "none",
                 newCountry |-> job[l].ev.country \notin uprof[v].countries,
                 newJA4     |-> FALSE]
<1>3. s \in Signals /\ usig' = [usig EXCEPT ![l] = s]
  BY <1>2 DEF Signals
<1> HIDE DEF s
<1>4. /\ ustore' \in [Users -> UserIds \cup {NoProfile}]
      /\ \A a, b \in Users : ustore'[a] = ustore'[b] /\ ustore'[a] # NoProfile => a = b
      /\ \A y \in Users : ustore[y] # NoProfile => ustore'[y] = ustore[y]
  <2>1. CASE UNCHANGED ustore
    BY <2>1 DEF EngineInv, UserInv, UserStoreInv
  <2>2. CASE /\ ustore[job[l].ev.user] = NoProfile
             /\ v \notin UserInUse(ustore, uptr)
             /\ ustore' = [ustore EXCEPT ![job[l].ev.user] = v]
    <3>1. \A y \in Users : ustore[y] # v
      BY <2>2 DEF UserInUse
    <3> QED  BY <2>2, <3>1 DEF EngineInv, UserInv, UserStoreInv
  <2> QED  BY <1>2, <2>1, <2>2 DEF UserLoads
<1>5. UserStoreInv'
  BY <1>4 DEF UserStoreInv
<1>6. uptr[l] = NoProfile
  BY <1>1 DEF EngineInv, UserInv, UserLearnerInv
<1>7. ASSUME NEW x \in UserIds, x \notin UserInUse(ustore', uptr')
      PROVE  x \notin UserInUse(ustore, uptr)
  <2>1. x # NoProfile
    BY UserConstants DEF UserAssumption
  <2>2. \A y \in Users : ustore[y] # x
    BY <1>4, <1>7, <2>1 DEF UserInUse
  <2>3. \A m \in Learners : uptr[m] # x
    BY <1>2, <1>6, <1>7, <2>1 DEF UserInUse, EngineInv, UserInv, UserLearnerInv
  <2> QED  BY <2>2, <2>3 DEF UserInUse
<1>8. UserHeapInv'
  BY <1>1, <1>7 DEF EngineInv, UserInv, UserHeapInv
<1>9. UserLearnerInv'
  <2>1. usig' \in [Learners -> Signals]
    BY <1>3 DEF EngineInv, UserInv, UserLearnerInv
  <2>2. upc' \in [Learners -> UserPC] /\ uptr' \in [Learners -> UserIds \cup {NoProfile}]
    BY <1>1, <1>2 DEF EngineInv, UserInv, UserLearnerInv, UserPC, Judging
  <2>3. v # NoProfile
    BY UserConstants DEF UserAssumption
  <2>4. \A m \in Learners : upc'[m] # "off" <=> uptr'[m] # NoProfile
    BY <1>1, <1>2, <2>3 DEF EngineInv, UserInv, UserLearnerInv
  <2>5. \A m \in Learners : upc'[m] # "off" => pc'[m] = "user"
    BY <1>1 DEF EngineInv, UserInv, UserLearnerInv
  <2> QED  BY <1>1, <2>1, <2>2, <2>4, <2>5 DEF EngineInv, UserInv, UserLearnerInv
<1>10. ASSUME NEW m \in Learners, NEW x \in UserIds, Owes(m, x) PROVE Owes(m, x)'
  <2>1. m # l
    BY <1>1, <1>10 DEF Owes, Storing
  <2> QED  BY <1>1, <1>2, <1>10, <2>1 DEF Owes, EngineInv, UserInv, UserLearnerInv
<1>11. DebtInv'
  BY <1>1, <1>10 DEF EngineInv, UserInv, DebtInv
<1> QED  BY <1>1, <1>5, <1>8, <1>9, <1>11 DEF EngineInv, UserInv, TailInv

\* RecordLogin adds to the signals' history and the failure count only.
LEMMA RecordedIsSound ==
  ASSUME NEW u, UserSound(u), NEW e \in Event
  PROVE  /\ UserSound(Recorded(u, e))
         /\ Recorded(u, e).score = u.score /\ Recorded(u, e).everBlocked = u.everBlocked
<1>1. PICK n \in 0..UserFailBan : n = Plus1(u.failed, UserFailBan)
  <2>1. u.failed \in 0..UserFailBan /\ UserFailBan \in Nat
    BY Thresholds DEF UserSound, UserProfile, ThresholdAssumption
  <2> QED  BY <2>1 DEF Plus1
<1>2. PICK c \in SUBSET Countries : c = u.countries \cup {e.country}
  BY DEF UserSound, UserProfile, Event
<1>3. PICK j \in SUBSET JA4s : j = u.ja4s \cup ({e.ja4} \ {NoJA4})
  BY DEF UserSound, UserProfile, Event
<1> QED  BY <1>1, <1>2, <1>3 DEF Recorded, UserSound, UserProfile

LEMMA RecordLoginStep ==
  ASSUME EngineInv, NEW l \in Learners, RecordLogin(l)
  PROVE  UserInv'
<1>1. /\ pc[l] = "user" /\ upc[l] = "loaded" /\ upc' = [upc EXCEPT ![l] = "recorded"]
      /\ UNCHANGED <<pc, ustore, uptr, uval, tail>>
  BY DEF RecordLogin, UserGoto, ipVars
<1>2. /\ uptr[l] \in UserIds /\ uprof[uptr[l]] \in UserProfile
      /\ UserSound(uprof[uptr[l]]) /\ job[l].ev \in Event
  BY <1>1, HeldProfile, InUserLayer DEF EngineInv
<1>3. PICK p : /\ uprof' = [uprof EXCEPT ![uptr[l]] = p] /\ UserSound(p)
               /\ p.score = uprof[uptr[l]].score
               /\ p.everBlocked = uprof[uptr[l]].everBlocked
  <2>1. CASE usig[l].login
    BY <1>2, <2>1, RecordedIsSound DEF RecordLogin
  <2>2. CASE ~usig[l].login
    <3>1. uprof' = [uprof EXCEPT ![uptr[l]] = uprof[uptr[l]]]
      BY <1>2, <2>2 DEF RecordLogin, EngineInv, UserInv, UserHeapInv
    <3> QED  BY <1>2, <3>1
  <2> QED  BY <2>1, <2>2
<1>4. UserHeapInv' /\ UserStoreInv'
  BY <1>1, <1>3, OwnWriteKeepsHeap DEF EngineInv
<1>5. \A v \in UserIds : uprof'[v].score = uprof[v].score
                           /\ uprof'[v].everBlocked = uprof[v].everBlocked
  BY <1>2, <1>3 DEF EngineInv, UserInv, UserHeapInv
<1>6. usig' \in [Learners -> Signals]
  <2>1. PICK b \in BOOLEAN : usig' = [usig EXCEPT ![l].newJA4 = b]
    BY DEF RecordLogin
  <2>2. usig \in [Learners -> Signals]
    BY DEF EngineInv, UserInv, UserLearnerInv
  <2> QED  BY <2>1, <2>2 DEF Signals
<1> QED  BY <1>1, <1>4, <1>5, <1>6, UserMoves DEF EngineInv, UserInv, UserLearnerInv, UserPC, Judging

\* Where the steps of the scoring lead.
LEMMA UserPlaces ==
  /\ {"loaded", "recorded", "scored", "boosted", "corrected", "not exploited",
      "not failed", "judged"} \subseteq Judging \ {"off"}
  /\ Judging \ {"off"} \subseteq UserPC \ {"off"}
  /\ {"assigned", "clamping", "clamped", "rounding", "blending"} \subseteq Storing
BY DEF Judging, Storing, UserPC

LEMMA ScoreUserStep ==
  ASSUME EngineInv, NEW l \in Learners, ScoreUser(l)
  PROVE  UserInv'
<1> DEFINE u == uprof[uptr[l]]
<1>1. /\ pc[l] = "user" /\ upc[l] = "recorded" /\ upc' = [upc EXCEPT ![l] = "scored"]
      /\ UNCHANGED <<pc, ustore, uptr, usig, tail>>
  BY DEF ScoreUser, UserGoto, ipVars
<1>2. uptr[l] \in UserIds /\ u \in UserProfile /\ UserSound(u) /\ verdict[l] \in Verdict
  BY <1>1, HeldProfile, InUserLayer DEF EngineInv
<1>3. PICK expired \in BOOLEAN : uprof' = [uprof EXCEPT ![uptr[l]].solved = @ /\ ~expired]
  BY DEF ScoreUser
<1>4. PICK p : p = [u EXCEPT !.solved = u.solved /\ ~expired]
  OBVIOUS
<1>5. /\ UserSound(p) /\ p.score = u.score /\ p.everBlocked = u.everBlocked
      /\ uprof' = [uprof EXCEPT ![uptr[l]] = p]
  BY <1>2, <1>3, <1>4 DEF UserSound, UserProfile, EngineInv, UserInv, UserHeapInv
<1>6. UserHeapInv' /\ UserStoreInv'
  BY <1>1, <1>5, OwnWriteKeepsHeap DEF EngineInv
<1>7. \A v \in UserIds : uprof'[v].score = uprof[v].score
                           /\ uprof'[v].everBlocked = uprof[v].everBlocked
  BY <1>2, <1>5 DEF EngineInv, UserInv, UserHeapInv
<1>8. PICK raw \in Score : uval' = [uval EXCEPT ![l].raw = raw]
  <2>1. PICK b \in Behaviours : uval' = [uval EXCEPT ![l].raw = UserRaw(verdict[l].score, b[1], b[2])]
    BY DEF ScoreUser, UserRawIs
  <2>2. b[1] \in 0..100 /\ b[2] \in 0..100 /\ verdict[l].score \in Score
    BY <1>2, UserConstants DEF UserAssumption, Verdict
  <2> QED  BY <2>1, <2>2, UserRawInRange
<1>9. uval \in [Learners -> UserVal] /\ usig' \in [Learners -> Signals]
  BY <1>1 DEF EngineInv, UserInv, UserLearnerInv
<1>10. uval' \in [Learners -> UserVal] /\ \A m \in Learners : m # l => uval'[m] = uval[m]
  BY <1>8, <1>9 DEF UserVal
<1> QED  BY <1>1, <1>6, <1>7, <1>9, <1>10, UserMoves, UserPlaces DEF EngineInv

\* The boost and the delta change the raw score alone.
LEMMA CorrectionStep ==
  ASSUME EngineInv, NEW l \in Learners, BoostUser(l) \/ CorrectUser(l)
  PROVE  UserInv'
<1>1. PICK here \in {"scored", "boosted"}, there \in {"boosted", "corrected"} :
        pc[l] = "user" /\ upc[l] = here /\ upc' = [upc EXCEPT ![l] = there]
  BY DEF BoostUser, CorrectUser, UserGoto
<1>2. UNCHANGED <<pc, ustore, uprof, uptr, usig, tail>>
  BY DEF BoostUser, CorrectUser, ipVars
<1>3. uval \in [Learners -> UserVal] /\ uval[l] \in UserVal
  BY DEF EngineInv, UserInv, UserLearnerInv
<1>4. uval[l].raw \in Score /\ uval[l].override \in Score \cup {NoOverride}
  BY <1>3 DEF UserVal
<1>5. uprof[uptr[l]].ewma \in 0..100
  BY <1>1, HeldProfile DEF EngineInv, UserProfile
<1>6. PICK raw \in Score : uval' = [uval EXCEPT ![l].raw = raw]
  BY <1>4, <1>5, CorrectionsInRange DEF BoostUser, CorrectUser, UserRawIs
<1>7. uval' = [uval EXCEPT ![l].raw = raw, ![l].override = uval[l].override]
  BY <1>3, <1>6 DEF UserVal
<1> QED  BY <1>1, <1>2, <1>4, <1>7, UserJudges, UserPlaces DEF EngineInv

\* An override replaces the raw score.
LEMMA JudgeStep ==
  ASSUME EngineInv, NEW l \in Learners, NEW override \in {0, 50, NoOverride},
         NEW here \in Judging \ {"off"}, NEW there \in Judging \ {"off"},
         Judge(l, here, override, there)
  PROVE  UserInv'
<1>1. PICK next \in Judging \ {"off"} : upc[l] = here /\ upc' = [upc EXCEPT ![l] = next]
  BY UserPlaces DEF Judge, UserGoto
<1>2. UNCHANGED <<pc, ustore, uprof, uptr, usig, tail>>
  BY DEF Judge, ipVars
<1>3. uval \in [Learners -> UserVal] /\ uval[l] \in UserVal
  BY DEF EngineInv, UserInv, UserLearnerInv
<1>4. PICK raw \in Score : raw = IF override = NoOverride THEN uval[l].raw ELSE override
  BY <1>3 DEF UserVal, Score, NoOverride
<1>5. uval' = [uval EXCEPT ![l].raw = raw, ![l].override = override]
  BY <1>3, <1>4 DEF Judge, UserVal
<1>6. override \in Score \cup {NoOverride}
  BY DEF Score
<1> QED  BY <1>1, <1>2, <1>5, <1>6, UserJudges, UserPlaces DEF EngineInv

LEMMA CheckStep ==
  ASSUME EngineInv, NEW l \in Learners,
         CheckExploit(l) \/ CheckFailures(l) \/ CheckNewDevice(l)
  PROVE  UserInv'
<1>1. CASE CheckExploit(l)
  BY <1>1, JudgeStep, UserPlaces DEF CheckExploit
<1>2. CASE CheckFailures(l)
  BY <1>2, JudgeStep, UserPlaces DEF CheckFailures
<1>3. CASE CheckNewDevice(l)
  BY <1>3, JudgeStep, UserPlaces DEF CheckNewDevice
<1> QED  BY <1>1, <1>2, <1>3

LEMMA InitialIsScore == InitialScore \in Score
BY DEF InitialScore, Score

\* What a learner reads of its profile's score, and what it keeps of it.
LEMMA SeenScore ==
  ASSUME EngineInv, NEW l \in Learners, NEW s \in Score,
         uval' = [uval EXCEPT ![l].seen = s]
  PROVE  uval' \in [Learners -> UserVal] /\ \A m \in Learners : m # l => uval'[m] = uval[m]
<1>1. uval \in [Learners -> UserVal]
  BY DEF EngineInv, UserInv, UserLearnerInv
<1> QED  BY <1>1 DEF UserVal

\* The score is read again, under the mutex or without it.
LEMMA ReadScoreStep ==
  ASSUME EngineInv, NEW l \in Learners, ReadBack(l) \/ BeginBlend(l)
  PROVE  UserInv'
<1>1. PICK there \in Storing :
        upc[l] # "off" /\ upc' = [upc EXCEPT ![l] = there]
  BY UserPlaces DEF ReadBack, BeginBlend, UserGoto
<1>2. /\ uval' = [uval EXCEPT ![l].seen = uprof[uptr[l]].score]
      /\ UNCHANGED <<pc, ustore, uprof, uptr, usig, tail>>
  BY DEF ReadBack, BeginBlend, ipVars
<1>3. uptr[l] \in UserIds /\ uprof[uptr[l]] \in UserProfile
  BY <1>1, HeldProfile DEF EngineInv
<1>4. PICK s \in Score : s = uprof[uptr[l]].score
  BY <1>3 DEF UserProfile
<1>5. uprof' = [uprof EXCEPT ![uptr[l]].score = s]
  BY <1>2, <1>3, <1>4 DEF EngineInv, UserInv, UserHeapInv, UserProfile
<1>6. uval' \in [Learners -> UserVal] /\ \A m \in Learners : m # l => uval'[m] = uval[m]
  BY <1>2, <1>4, SeenScore
<1> QED  BY <1>1, <1>2, <1>5, <1>6, UserStores DEF EngineInv

\* A score is stored: an override, what was read of the profile, or a blend.
LEMMA WriteScoreStep ==
  ASSUME EngineInv, NEW l \in Learners, StoreOverride(l) \/ WriteBack(l) \/ EndBlend(l)
  PROVE  UserInv'
<1>1. PICK there \in Storing \cup {"written"} :
        upc[l] # "off" /\ upc' = [upc EXCEPT ![l] = there]
  BY UserPlaces DEF StoreOverride, WriteBack, EndBlend, UserGoto
<1>2. UNCHANGED <<pc, ustore, uptr, usig, tail>>
  BY DEF StoreOverride, WriteBack, EndBlend, ipVars
<1>3. uval \in [Learners -> UserVal] /\ uval[l] \in UserVal
  BY DEF EngineInv, UserInv, UserLearnerInv
<1>4. PICK s \in Score : uprof' = [uprof EXCEPT ![uptr[l]].score = s]
  <2>1. CASE StoreOverride(l)
    BY <1>3, <2>1 DEF StoreOverride, UserVal
  <2>2. CASE WriteBack(l)
    BY <1>3, <2>2 DEF WriteBack, UserVal
  <2>3. CASE EndBlend(l)
    BY <2>3 DEF EndBlend, EWMA
  <2> QED  BY <2>1, <2>2, <2>3
<1>5. uval' \in [Learners -> UserVal] /\ \A m \in Learners : m # l => uval'[m] = uval[m]
  <2>1. CASE UNCHANGED uval
    BY <1>3, <2>1
  <2>2. CASE uval' = [uval EXCEPT ![l].seen = InitialScore]
    BY <2>2, SeenScore, InitialIsScore
  <2> QED  BY <2>1, <2>2 DEF StoreOverride, WriteBack, EndBlend
<1> QED  BY <1>1, <1>2, <1>4, <1>5, UserStores DEF EngineInv

\* The score read back is the profile's: the debt stays with the reader.
LEMMA ReadFinalScoreStep ==
  ASSUME EngineInv, NEW l \in Learners, ReadFinalScore(l)
  PROVE  UserInv'
<1>1. /\ pc[l] = "user" /\ upc[l] = "written" /\ upc' = [upc EXCEPT ![l] = "final"]
      /\ uval' = [uval EXCEPT ![l].final = uprof[uptr[l]].score]
      /\ UNCHANGED <<pc, ustore, uprof, uptr, usig, tail>>
  BY DEF ReadFinalScore, UserGoto, ipVars
<1>2. uptr[l] \in UserIds /\ uprof[uptr[l]].score \in Score
  BY <1>1, HeldProfile DEF EngineInv, UserProfile
<1>3. uval \in [Learners -> UserVal]
  BY DEF EngineInv, UserInv, UserLearnerInv
<1>4. /\ uval' \in [Learners -> UserVal] /\ uval'[l].final = uprof[uptr[l]].score
      /\ \A m \in Learners : m # l => uval'[m] = uval[m]
  BY <1>1, <1>2, <1>3 DEF UserVal
<1>5. UserLearnerInv'
  BY <1>1, <1>4 DEF EngineInv, UserInv, UserLearnerInv, UserPC, Judging
<1>6. ASSUME NEW v \in UserIds, uprof[v].score < 300, NEW m \in Learners, Owes(m, v)
      PROVE  Owes(m, v)'
  <2>1. CASE m = l
    BY <1>1, <1>4, <1>6, <2>1 DEF Owes, EngineInv, UserInv, UserLearnerInv
  <2>2. CASE m # l
    BY <1>1, <1>4, <1>6, <2>2 DEF Owes, EngineInv, UserInv, UserLearnerInv
  <2> QED  BY <2>1, <2>2
<1>7. DebtInv'
  BY <1>1, <1>6 DEF EngineInv, UserInv, DebtInv
<1>8. UserStoreInv' /\ UserHeapInv' /\ TailInv'
  BY <1>1 DEF EngineInv, UserInv, UserStoreInv, UserHeapInv, UserInUse, TailInv
<1> QED  BY <1>5, <1>7, <1>8 DEF UserInv

\* The policy layer of the users never relaxes a rejection.
LEMMA UserPolicyKeepsRejection ==
  ASSUME NEW u, NEW s, NEW ipDecision, NEW d \in Rejected
  PROVE  ApplyUserPolicy(u, s, ipDecision, d) = d
BY DEF ApplyUserPolicy, Rejected, Served

\* The debtor pays: it flags the profile.
LEMMA FlagUserStep ==
  ASSUME EngineInv, NEW l \in Learners, FlagUser(l)
  PROVE  UserInv'
<1> DEFINE u == uprof[uptr[l]]
           flag == u.everBlocked \/ UserDecision(l) \in Rejected
<1>1. /\ pc[l] = "user" /\ upc[l] = "final" /\ upc' = [upc EXCEPT ![l] = "off"]
      /\ pc' = [pc EXCEPT ![l] = "idle"]
      /\ uptr' = [uptr EXCEPT ![l] = NoProfile]
      /\ usig' = [usig EXCEPT ![l] = NoSignals] /\ uval' = [uval EXCEPT ![l] = NoUserVal]
      /\ UNCHANGED <<ustore, tail>>
  BY DEF FlagUser, UserGoto, ReturnFromUserLayer, Ends
<1>2. /\ uptr[l] \in UserIds /\ u \in UserProfile /\ UserSound(u)
  BY <1>1, HeldProfile DEF EngineInv
<1>3. PICK b \in BOOLEAN : b = flag
  OBVIOUS
<1>4. PICK heap : heap = [uprof EXCEPT ![uptr[l]].everBlocked = b]
  OBVIOUS
<1>5. uprof' = UserCollected(heap, ustore, uptr')
  BY <1>2, <1>3, <1>4 DEF FlagUser
<1>6. /\ heap \in [UserIds -> UserProfile]
      /\ \A v \in UserIds : v # uptr[l] => heap[v] = uprof[v]
      /\ heap[uptr[l]] = [u EXCEPT !.everBlocked = b]
  BY <1>2, <1>4 DEF EngineInv, UserInv, UserHeapInv, UserProfile
<1>7. heap[uptr[l]].score = u.score /\ heap[uptr[l]].everBlocked = b
        /\ UserSound(heap[uptr[l]])
  BY <1>2, <1>3, <1>6 DEF UserSound, UserProfile
<1>8. \A v \in UserIds : UserSound(heap[v])
  BY <1>6, <1>7 DEF EngineInv, UserInv, UserHeapInv
<1>9. /\ uprof' \in [UserIds -> UserProfile]
      /\ \A v \in UserIds : UserSound(uprof'[v])
      /\ \A v \in UserIds : v \notin UserInUse(ustore, uptr') => uprof'[v] = NewUserProfile
      /\ \A v \in UserIds : v \in UserInUse(ustore, uptr') => uprof'[v] = heap[v]
  BY <1>5, <1>6, <1>8, UserCollectedIsSound
<1>10. UserHeapInv' /\ UserStoreInv'
  BY <1>1, <1>9 DEF UserHeapInv, UserStoreInv, EngineInv, UserInv
<1>11. UserLearnerInv'
  <2>1. NoSignals \in Signals /\ NoUserVal \in UserVal
    BY DEF NoSignals, Signals, NoUserVal, UserVal, Score, InitialScore
  <2>2. "off" \in UserPC
    BY DEF UserPC, Judging
  <2> QED  BY <1>1, <2>1, <2>2 DEF EngineInv, UserInv, UserLearnerInv
<1>12. Owes(l, uptr[l]) => b
  <2>1. ASSUME uval[l].final < 300 PROVE UserDecision(l) \in Rejected
    <3>1. uval[l].final \in Score
      BY DEF EngineInv, UserInv, UserLearnerInv, UserVal
    <3>2. MakeDecision(uval[l].final) \in Rejected
      BY <2>1, <3>1, DecisionBands
    <3> QED  BY <3>2, UserPolicyKeepsRejection DEF UserDecision
  <2> QED  BY <1>1, <1>3, <2>1 DEF Owes, Storing
<1>13. ASSUME NEW v \in UserIds, uprof'[v].score < 300, ~uprof'[v].everBlocked
       PROVE  \E m \in Learners : Owes(m, v)'
  <2>1. uprof'[v] = heap[v]
    BY <1>9, <1>13 DEF NewUserProfile, InitialScore
  <2>2. uprof[v].score < 300 /\ ~uprof[v].everBlocked /\ (v = uptr[l] => ~b)
    BY <1>3, <1>6, <1>7, <1>13, <2>1
  <2>3. PICK m \in Learners : Owes(m, v)
    BY <2>2 DEF EngineInv, UserInv, DebtInv
  <2>4. m # l
    BY <1>12, <2>2, <2>3 DEF Owes
  <2>5. Owes(m, v)'
    BY <1>1, <2>3, <2>4 DEF Owes, EngineInv, UserInv, UserLearnerInv
  <2> QED  BY <2>5
<1>14. DebtInv'
  BY <1>13 DEF DebtInv
<1> QED  BY <1>1, <1>10, <1>11, <1>14 DEF EngineInv, UserInv, TailInv

-----------------------------------------------------------------------------
(* The writers, and the rest of the engine.                                *)

LEMMA RASPHitUserStep ==
  ASSUME EngineInv, NEW w \in Writers, RASPHitUser(w)
  PROVE  UserInv'
<1>1. /\ tail[w] # NoTail /\ tail[w].op = "rasp" /\ tail' = [tail EXCEPT ![w] = NoTail]
      /\ UNCHANGED <<pc, upc, uptr, usig, uval>>
  BY DEF RASPHitUser, FinishWith, ipVars
<1>2. PICK v \in UserIds : /\ UserLoads(tail[w].user, v)
                           /\ uprof' = [uprof EXCEPT ![v] = UserRASPHit(@)]
  BY DEF RASPHitUser, FinishWith
<1>3. tail[w].user \in Users
  BY <1>1 DEF EngineInv, UserInv, TailInv, UserHalf
<1>4. PICK p : p = [uprof[v] EXCEPT !.confirmed = TRUE, !.everBlocked = TRUE, !.score = 0]
  OBVIOUS
<1>5. UserSound(p) /\ p.everBlocked
  <2>1. 0 \in Score
    BY DEF Score
  <2>2. uprof[v] \in UserProfile
    BY DEF EngineInv, UserInv, UserHeapInv
  <2> QED  BY <1>4, <2>1, <2>2 DEF UserSound, UserProfile
<1>6. p = UserRASPHit(uprof[v])
  BY <1>4 DEF UserRASPHit
<1>7. uprof' = [uprof EXCEPT ![v] = p] /\ TailInv'
  BY <1>1, <1>2, <1>6 DEF EngineInv, UserInv, UserHeapInv, TailInv
<1> QED  BY <1>1, <1>2, <1>3, <1>5, <1>7, UserWriteKeepsInv DEF EngineInv

LEMMA ChallengeSolvedUserStep ==
  ASSUME EngineInv, NEW w \in Writers, ChallengeSolvedUser(w)
  PROVE  UserInv'
<1>1. /\ tail[w] # NoTail /\ tail[w].op = "solved" /\ tail' = [tail EXCEPT ![w] = NoTail]
      /\ UNCHANGED <<pc, upc, uptr, usig, uval>>
  BY DEF ChallengeSolvedUser, FinishWith, ipVars
<1>2. PICK v \in UserIds : /\ UserLoads(tail[w].user, v)
                           /\ uprof' = [uprof EXCEPT ![v] = [@ EXCEPT !.solved = TRUE]]
  BY DEF ChallengeSolvedUser, FinishWith
<1>3. tail[w].user \in Users
  BY <1>1 DEF EngineInv, UserInv, TailInv, UserHalf
<1>4. PICK p : p = [uprof[v] EXCEPT !.solved = TRUE]
  OBVIOUS
<1>5. /\ UserSound(p) /\ p.score = uprof[v].score
      /\ p.everBlocked = uprof[v].everBlocked
  BY <1>4 DEF EngineInv, UserInv, UserHeapInv, UserSound, UserProfile
<1>6. uprof' = [uprof EXCEPT ![v] = p] /\ TailInv'
  BY <1>1, <1>2, <1>4 DEF EngineInv, UserInv, UserHeapInv, TailInv
<1> QED  BY <1>1, <1>2, <1>3, <1>5, <1>6, UserWriteKeepsInv DEF EngineInv

LEMMA Tier1CorrectionUserStep ==
  ASSUME EngineInv, NEW w \in Writers, Tier1CorrectionUser(w)
  PROVE  UserInv'
<1>1. /\ tail[w] # NoTail /\ tail[w].op = "tier1" /\ tail' = [tail EXCEPT ![w] = NoTail]
      /\ UNCHANGED <<pc, upc, uptr, usig, uval>>
  BY DEF Tier1CorrectionUser, FinishWith, ipVars
<1>2. PICK v \in UserIds : /\ UserLoads(tail[w].user, v)
                           /\ uprof' = [uprof EXCEPT ![v] = Corrected(@, tail[w].delta)]
  BY DEF Tier1CorrectionUser, FinishWith
<1>3. tail[w].user \in Users /\ tail[w].delta \in Int
  BY <1>1, IPConstants DEF EngineInv, UserInv, TailInv, UserHalf, IPAssumption
<1>4. uprof[v].ewma \in 0..100
  BY DEF EngineInv, UserInv, UserHeapInv, UserProfile
<1>5. PICK c \in 0..100 : c = Clamp100(uprof[v].ewma + tail[w].delta)
  <2>1. PICK e \in 0..100, d \in Int : e = uprof[v].ewma /\ d = tail[w].delta
    BY <1>3, <1>4
  <2>2. Clamp100(e + d) \in 0..100
    BY DEF Clamp100
  <2> QED  BY <2>1, <2>2
<1>6. PICK p : p = [uprof[v] EXCEPT !.ewma = c]
  OBVIOUS
<1>7. /\ UserSound(p) /\ p.score = uprof[v].score
      /\ p.everBlocked = uprof[v].everBlocked
  BY <1>6 DEF EngineInv, UserInv, UserHeapInv, UserSound, UserProfile
<1>8. p = Corrected(uprof[v], tail[w].delta)
  BY <1>5, <1>6 DEF Corrected
<1>9. uprof' = [uprof EXCEPT ![v] = p] /\ TailInv'
  BY <1>1, <1>2, <1>8 DEF EngineInv, UserInv, UserHeapInv, TailInv
<1> QED  BY <1>1, <1>2, <1>3, <1>7, <1>9, UserWriteKeepsInv DEF EngineInv

LEMMA ResetUserStoreStep ==
  ASSUME EngineInv, NEW w \in Writers, ResetUserStore(w)
  PROVE  UserInv'
<1>1. /\ tail' = [tail EXCEPT ![w] = NoTail]
      /\ ustore' = [u \in Users |-> NoProfile]
      /\ uprof' = UserCollected(uprof, ustore', uptr)
      /\ UNCHANGED <<pc, upc, uptr, usig, uval>>
  BY DEF ResetUserStore, ipVars
<1>2. /\ uprof' \in [UserIds -> UserProfile]
      /\ \A v \in UserIds : UserSound(uprof'[v])
      /\ \A v \in UserIds : v \notin UserInUse(ustore', uptr) => uprof'[v] = NewUserProfile
      /\ \A v \in UserIds : v \in UserInUse(ustore', uptr) => uprof'[v] = uprof[v]
  BY <1>1, UserCollectedIsSound DEF EngineInv, UserInv, UserHeapInv
<1>3. UserStoreInv' /\ UserHeapInv' /\ TailInv'
  BY <1>1, <1>2 DEF UserStoreInv, UserHeapInv, TailInv, EngineInv, UserInv
<1>4. UserLearnerInv'
  BY <1>1 DEF EngineInv, UserInv, UserLearnerInv
<1>5. ASSUME NEW v \in UserIds, uprof'[v].score < 300, ~uprof'[v].everBlocked
      PROVE  uprof'[v] = uprof[v]
  BY <1>2, <1>5 DEF NewUserProfile, InitialScore
<1>6. DebtInv'
  BY <1>1, <1>5 DEF EngineInv, UserInv, DebtInv, Owes
<1> QED  BY <1>3, <1>4, <1>6 DEF UserInv

\* The IP half of a writer.
LEMMA StartWriterStep ==
  ASSUME EngineInv, NEW w \in Writers, StartWriter(w)
  PROVE  UserInv'
<1>1. UNCHANGED uVars /\ UNCHANGED pc
  BY DEF StartWriter, ProcessRASPEvent, RecordChallengeSolved, ApplyFeedback, ResetIPStore,
         Continue, RASPHitIP, ChallengeSolvedIP, Tier1CorrectionIP, Writes, ResetAllData
<1>2. PICK t \in UserHalf \cup {NoTail} : tail' = [tail EXCEPT ![w] = t]
  <2>1. ASSUME NEW ip \in IPs, NEW u \in Users \cup {NoUser}, NEW sev \in Severity,
               ProcessRASPEvent(w, ip, u, sev)
        PROVE  \E t \in UserHalf \cup {NoTail} : tail' = [tail EXCEPT ![w] = t]
    BY <2>1 DEF ProcessRASPEvent, Continue, UserHalf
  <2>2. ASSUME NEW ip \in IPs, NEW u \in Users \cup {NoUser}, RecordChallengeSolved(w, ip, u)
        PROVE  \E t \in UserHalf \cup {NoTail} : tail' = [tail EXCEPT ![w] = t]
    BY <2>2 DEF RecordChallengeSolved, Continue, UserHalf
  <2>3. ASSUME NEW ip \in IPs, NEW u \in Users \cup {NoUser},
               NEW delta \in {-CorrectionDelta, CorrectionDelta}, ApplyFeedback(w, ip, u, delta)
        PROVE  \E t \in UserHalf \cup {NoTail} : tail' = [tail EXCEPT ![w] = t]
    BY <2>3 DEF ApplyFeedback, Continue, UserHalf
  <2>4. ASSUME ResetIPStore(w)
        PROVE  \E t \in UserHalf \cup {NoTail} : tail' = [tail EXCEPT ![w] = t]
    BY <2>4 DEF ResetIPStore, UserHalf
  <2> QED  BY <2>1, <2>2, <2>3, <2>4 DEF StartWriter
<1>3. TailInv'
  BY <1>2 DEF EngineInv, UserInv, TailInv
<1> QED  BY <1>1, <1>3, IPStepKeepsUserInv DEF EngineInv

LEMMA GatekeeperUserLoadStep ==
  ASSUME EngineInv, NEW u \in Users, GatekeeperUserLoad(u)
  PROVE  UserInv'
<1>1. PICK v \in UserIds : UserLoads(u, v)
  BY DEF GatekeeperUserLoad
<1>2. UNCHANGED <<pc, uprof, upc, uptr, usig, uval, tail>>
  BY DEF GatekeeperUserLoad, ipVars
<1>3. uprof' = [uprof EXCEPT ![v] = uprof[v]] /\ TailInv' /\ UserSound(uprof[v])
  BY <1>2 DEF EngineInv, UserInv, UserHeapInv, TailInv
<1> QED  BY <1>1, <1>2, <1>3, UserWriteKeepsInv DEF EngineInv

\* Steps of the IP layer alone.
LEMMA IPLayerAlone ==
  ASSUME EngineInv, UNCHANGED <<uVars, tail>>,
         \/ \E l \in Learners : IPLayerStep(l)
         \/ \E l \in Learners, ip \in IPs, e \in Events : LearnerLoad(l, ip, e)
         \/ UNCHANGED pc
  PROVE  UserInv'
<1>1. TailInv'
  BY DEF EngineInv, UserInv, TailInv
<1>2. \A l \in Learners : pc[l] = "user" => pc'[l] = "user"
  BY UserLayerStays DEF EngineInv
<1> QED  BY <1>1, <1>2, IPStepKeepsUserInv DEF EngineInv

LEMMA InitIsUserInv == EngineInit => EngineInv
<1> SUFFICES ASSUME EngineInit PROVE EngineInv
  OBVIOUS
<1>1. IInv
  BY InitIsInv DEF EngineInit
<1>2. NewUserProfile \in UserProfile /\ UserSound(NewUserProfile)
  BY NewUserProfileIsSound DEF UserSound
<1>3. UserStoreInv
  BY DEF EngineInit, UserInit, UserStoreInv
<1>4. UserHeapInv
  BY <1>2 DEF EngineInit, UserInit, UserHeapInv
<1>5. UserLearnerInv
  BY DEF EngineInit, UserInit, UserLearnerInv, UserPC, Judging, NoSignals, Signals, NoUserVal, UserVal,
         Score, InitialScore
<1>6. TailInv
  BY DEF EngineInit, UserInit, TailInv
<1>7. DebtInv
  BY DEF EngineInit, UserInit, DebtInv, NewUserProfile, InitialScore
<1> QED  BY <1>1, <1>3, <1>4, <1>5, <1>6, <1>7 DEF EngineInv, UserInv

LEMMA LearnerKeepsUserInv ==
  ASSUME EngineInv, NEW l \in Learners, EngineLearnerStep(l)
  PROVE  UserInv'
BY IPLayerAlone, UserLoadStep, RecordLoginStep, ScoreUserStep, CorrectionStep, CheckStep,
   ReadScoreStep, WriteScoreStep, ReadFinalScoreStep, FlagUserStep DEF EngineLearnerStep, UserLayerStep

LEMMA WriterKeepsUserInv ==
  ASSUME EngineInv, NEW w \in Writers, StartWriter(w) \/ FinishTail(w)
  PROVE  UserInv'
BY StartWriterStep, RASPHitUserStep, ChallengeSolvedUserStep, Tier1CorrectionUserStep,
   ResetUserStoreStep DEF FinishTail

\* The invariant of both layers is inductive.
THEOREM EngineKeepsInv == EngineInv /\ [EngineNext]_vars => EngineInv'
<1> SUFFICES ASSUME EngineInv, [EngineNext]_vars PROVE EngineInv'
  OBVIOUS
<1>1. IInv'
  BY EngineStepIsIPStep, NextKeepsInv DEF EngineInv
<1>2. UserInv'
  <2>1. CASE UNCHANGED vars
    BY <2>1, IPLayerAlone DEF vars, ipVars
  <2>2. CASE \E l \in Learners, ip \in IPs, e \in Events : StartLearner(l, ip, e)
    BY <2>2, IPLayerAlone DEF StartLearner
  <2>3. CASE Background
    BY <2>3, IPLayerAlone, GatekeeperUserLoadStep
       DEF Background, GatekeeperLoad, Evict, HourPasses
  <2> QED  BY <2>1, <2>2, <2>3, LearnerKeepsUserInv, WriterKeepsUserInv DEF EngineNext
<1> QED  BY <1>1, <1>2 DEF EngineInv

THEOREM EngineIsSafe == EngineSpec => []EngineInv
BY InitIsUserInv, EngineKeepsInv, PTL DEF EngineSpec

\* The engine's IP layer is IPTrust: a behaviour of both layers is one of the IP
\* layer, so that every theorem of part one holds of the whole engine.
THEOREM EngineImplementsIPLayer == EngineSpec => Spec
<1>1. EngineInit => Init
  BY DEF EngineInit
<1> QED  BY <1>1, EngineStepIsIPStep, PTL DEF EngineSpec, Spec

-----------------------------------------------------------------------------
(* What follows from the invariant.                                        *)

\* Types, as the run checks them: account scores stay in 0.00..10.00 through
\* every blend, override and correction of user_fusion.go.
THEOREM EngineTypes == EngineSpec => []EngineTypeOK
<1>1. IInv => TypeOK
  BY DEF IInv, StoreInv, HeapInv, LearnerInv, Carries, Sound, TypeOK
<1>2. EngineInv => EngineTypeOK
  BY <1>1 DEF EngineInv, UserInv, UserStoreInv, UserHeapInv, UserLearnerInv, TailInv,
              EngineTypeOK
<1> QED  BY <1>2, EngineIsSafe, PTL

\* A CRITICAL effect keeps the address from being served unchallenged to
\* anybody and the account from anywhere (api.go Gatekeeper, rasp.go).
THEOREM ExploitIsContainedForAll == EngineSpec => []ExploitContainedForAll
<1>1. ASSUME EngineInv, NEW ip \in IPs, NEW u \in Users \cup {NoUser},
             Exploited(ip) \/ (u # NoUser /\ UserStanding(u).confirmed)
      PROVE  GatekeeperFor(ip, u) \notin Served
  <2>1. Exploited(ip) => EverBlocked(ip)
    BY <1>1 DEF EngineInv, IInv, StoreInv, HeapInv, Sound, Exploited, EverBlocked
  <2>2. u # NoUser /\ UserStanding(u).confirmed => UserStanding(u).everBlocked
    <3>1. u # NoUser => UserSound(UserStanding(u))
      BY <1>1, NewUserProfileIsSound
         DEF EngineInv, UserInv, UserStoreInv, UserHeapInv, UserStanding
    <3> QED  BY <3>1 DEF UserSound
  <2>3. "challenge" \notin Served
    BY DEF Served
  <2> QED  BY <1>1, <2>1, <2>2, <2>3 DEF GatekeeperFor, Gatekeeper
<1>2. EngineInv => ExploitContainedForAll
  BY <1>1 DEF ExploitContainedForAll
<1> QED  BY <1>2, EngineIsSafe, PTL

\* Once its learners are done, an account whose score rejects carries the
\* sticky flag: the last learner to read the score back has seen the last one.
THEOREM SettledUsersAreFlagged == EngineSpec => []SettledUserIsFlagged
<1>1. ASSUME EngineInv, NEW u \in Users, ustore[u] # NoProfile, Settled(ustore[u]),
             MakeDecision(UserStanding(u).score) \in Rejected
      PROVE  UserStanding(u).everBlocked
  <2>1. ustore[u] \in UserIds /\ UserStanding(u) = uprof[ustore[u]]
    BY <1>1 DEF EngineInv, UserInv, UserStoreInv, UserStanding
  <2>2. uprof[ustore[u]].score \in Score
    BY <1>1, <2>1 DEF EngineInv, UserInv, UserHeapInv, UserProfile
  <2>3. uprof[ustore[u]].score < 300
    BY <1>1, <2>1, <2>2, DecisionBands
  <2>4. \A l \in Learners : ~Owes(l, ustore[u])
    BY <1>1 DEF Settled, Owes
  <2> QED  BY <1>1, <2>1, <2>3, <2>4 DEF EngineInv, UserInv, DebtInv
<1>2. EngineInv => SettledUserIsFlagged
  BY <1>1 DEF SettledUserIsFlagged
<1> QED  BY <1>2, EngineIsSafe, PTL

\* Only its own blend takes a learner out of UpdateEWMA.
LEMMA OnlyEndBlendBlends ==
  ASSUME EngineInv, [EngineNext]_vars, NEW l \in Learners,
         upc[l] = "blending", upc'[l] = "written"
  PROVE  EndBlend(l)
<1>1. ASSUME NEW m \in Learners, UserLayerStep(m) PROVE EndBlend(l)
  <2>1. upc \in [Learners -> UserPC]
    BY DEF EngineInv, UserInv, UserLearnerInv
  <2>2. EndBlend(m) \/ \E here, there : here # "blending" /\ UserGoto(m, here, there)
    BY <1>1 DEF UserLayerStep, UserLoad, RecordLogin, ScoreUser, BoostUser, CorrectUser,
                Judge, CheckExploit, CheckFailures, CheckNewDevice, StoreOverride,
                ReadBack, WriteBack, BeginBlend, ReadFinalScore, FlagUser
  <2>3. CASE EndBlend(m)
    BY <2>1, <2>3 DEF EndBlend, UserGoto
  <2>4. CASE \E here, there : here # "blending" /\ UserGoto(m, here, there)
    BY <2>1, <2>4 DEF UserGoto
  <2> QED  BY <2>2, <2>3, <2>4
<1>2. ASSUME NEW m \in Learners, EngineLearnerStep(m) PROVE EndBlend(l)
  BY <1>1, <1>2 DEF EngineLearnerStep, uVars
<1>3. ASSUME NEW w \in Writers, StartWriter(w) \/ FinishTail(w) PROVE UNCHANGED upc
  <2>1. CASE StartWriter(w)
    BY <2>1 DEF StartWriter, ProcessRASPEvent, RecordChallengeSolved, ApplyFeedback,
                ResetIPStore, Continue, uVars
  <2>2. CASE FinishTail(w)
    BY <2>2 DEF FinishTail, RASPHitUser, ChallengeSolvedUser, Tier1CorrectionUser,
                FinishWith, ResetUserStore
  <2> QED  BY <1>3, <2>1, <2>2
<1>4. CASE UNCHANGED vars
  BY <1>4 DEF vars, uVars
<1>5. CASE \E m \in Learners, ip \in IPs, e \in Events : StartLearner(m, ip, e)
  BY <1>5 DEF StartLearner, uVars
<1>6. CASE Background
  BY <1>6 DEF Background, GatekeeperUserLoad, uVars
<1> QED  BY <1>2, <1>3, <1>4, <1>5, <1>6 DEF EngineNext

\* One event without a hard override writes a score one decision band at most below
\* the one it read under the mutex, whatever it was corrected by and whatever others
\* stored meanwhile (user_profile.go UpdateEWMA).
THEOREM OneEventOneBand == EngineSpec => SingleEventInertia
<1> DEFINE Inertia == \A l \in Learners, v \in UserIds :
       (upc[l] = "blending" /\ upc'[l] = "written" /\ uptr[l] = v)
         => Strictness(MakeDecision(uprof'[v].score))
              <= Strictness(MakeDecision(uval[l].seen)) + 1
<1>1. ASSUME EngineInv, [EngineNext]_vars, NEW l \in Learners, NEW v \in UserIds,
             upc[l] = "blending", upc'[l] = "written", uptr[l] = v
      PROVE  Strictness(MakeDecision(uprof'[v].score))
               <= Strictness(MakeDecision(uval[l].seen)) + 1
  <2>1. EndBlend(l)
    BY <1>1, OnlyEndBlendBlends
  <2>2. PICK s \in EWMA(uval[l].raw, uval[l].seen) : uprof' = [uprof EXCEPT ![v].score = s]
    BY <1>1, <2>1 DEF EndBlend
  <2>3. uprof[v] \in UserProfile /\ uprof \in [UserIds -> UserProfile]
    BY <1>1 DEF EngineInv, UserInv, UserHeapInv
  <2>4. uprof'[v].score = s
    BY <2>2, <2>3 DEF UserProfile
  <2>5. uval[l].raw \in Score /\ uval[l].seen \in Score
    BY <1>1 DEF EngineInv, UserInv, UserLearnerInv, UserVal
  <2> QED  BY <2>2, <2>4, <2>5, BlendKeepsBand
<1>2. EngineInv /\ [EngineNext]_vars => [Inertia]_vars
  BY <1>1
<1> QED  BY <1>2, EngineIsSafe, PTL DEF EngineSpec, SingleEventInertia
=============================================================================
