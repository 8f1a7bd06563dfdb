------------------------------ MODULE IPTrust ------------------------------
(***************************************************************************)
(* The IP layer of the trust engine: the profile store (ip_store.go), the  *)
(* learner goroutines that score one event each (api.go ProcessEvent,      *)
(* fusion.go ComputeTrustScore, types.go Update), the RASP ingest          *)
(* (rasp.go), the challenge and Tier 1 writers, and the Gatekeeper that    *)
(* reads the result before the next request.                               *)
(*                                                                         *)
(* A learner holds the pointer it loaded while the store evicts the        *)
(* profile under it, and takes the profile's RWMutex separately for each   *)
(* of its phases: the actions are the critical sections, so other actors   *)
(* run between them.  The mutex is written as guards: the only section cut *)
(* in two is Phase 1 of a login POST, which increments LoginAttempts while *)
(* it holds the lock in read mode only.                                    *)
(*                                                                         *)
(* Load and the critical section that follows it are one action for the    *)
(* writers that load and lock at once (RASP, challenge, Tier 1): an        *)
(* eviction between the two has the effect of an eviction after both.      *)
(*                                                                         *)
(* Time is abstract: an hour without traffic is a step, a challenge boost  *)
(* may have expired at any Update, and so may any part of the 1 s window.  *)
(* Counters saturate at the highest threshold that reads them.             *)
(***************************************************************************)
EXTENDS TrustScoring

CONSTANTS
  IPs,          \* client addresses
  Learners,     \* learner goroutines that may be in flight at once
  ProfileIds,   \* identities of IPProfile objects
  NoProfile,    \* a nil pointer
  Countries,    \* country codes of events
  JA4s,         \* TLS fingerprints of events
  Users,        \* user identifiers
  NoUser,       \* the empty user identifier of an anonymous request
  NoJob,        \* what an idle learner works on
  Events,       \* what the learner is told about a request
  CorrectionDelta  \* size of a Tier 1 correction, hundredths (config)

\* A request as the learner sees it (form: a POST to a login or to another
\* account endpoint; ok: status 200; passed: it carried a clearance cookie),
\* with what the detection modules make of it: the raw score, whether some
\* sub-score exceeds 0.5 (suspicious) and whether the recon one is positive.
\* A sensitive path alone puts the recon sub-score at 0.6.
Event == {e \in [form : {"none", "login", "account"}, ok : BOOLEAN, sens : BOOLEAN,
                 passed : BOOLEAN, tor : BOOLEAN, infra : BOOLEAN,
                 country : Countries, ja4 : JA4s, user : Users \cup {NoUser},
                 raw : Score, suspicious : BOOLEAN, recon : BOOLEAN] :
            e.sens => e.suspicious /\ e.recon}

IPAssumption ==
  /\ NoProfile \notin ProfileIds
  /\ NoJob \notin [ip : IPs, ev : Events]
  /\ NoUser \notin Users
  /\ Events \subseteq Event
  /\ CorrectionDelta \in 0..100
  /\ IsFiniteSet(Countries)

ASSUME IPConstants == IPAssumption

VARIABLES
  store,      \* MemoryIPStore.profiles: the live profile of each IP
  prof,       \* the heap: the contents of each profile object
  pc,         \* where each learner is
  ptr,        \* the profile a learner loaded
  job,        \* the address and the event a learner works on
  seen,       \* what Phase 1 captured under the read lock
  verdict     \* what Phase 2 computed

ipVars == <<store, prof, pc, ptr, job, seen, verdict>>

-----------------------------------------------------------------------------
Profile == [logins : 0..LoginBan, posts : 0..LoginBan, sens : 0..SensBan,
            countries : SUBSET Countries, burst : 0..(BurstBan + 1),
            tor : BOOLEAN, infra : BOOLEAN, hits : Seq(Severity),
            confirmed : BOOLEAN, blocked : BOOLEAN, solved : BOOLEAN,
            ewma : 0..100, last : Score, recent : BOOLEAN]

\* posts is a history field: the login POSTs counted since the counters were
\* last reset.  last stands for the newest of PreviousScores, or the 7.5 the
\* Gatekeeper assumes without one.  recent: LastSeen is within the hour.
NewIPProfile ==
  [logins |-> 0, posts |-> 0, sens |-> 0, countries |-> {}, burst |-> 0,
   tor |-> FALSE, infra |-> FALSE, hits |-> <<>>, confirmed |-> FALSE,
   blocked |-> FALSE, solved |-> FALSE, ewma |-> 50,
   last |-> InitialScore, recent |-> FALSE]

Job == [ip : IPs, ev : Events]

\* After Phase 3 a learner is idle again, or in the user layer.
LearnerPC == {"idle", "loaded", "bump", "scored", "policy", "update", "user"}

Seen    == [attempts : 0..LoginBan, solved : BOOLEAN, ewma : 0..100]
Verdict == [score : Score, decision : Decisions, knew : BOOLEAN]

NoSeen    == [attempts |-> 0, solved |-> FALSE, ewma |-> 50]
NoVerdict == [score |-> InitialScore, decision |-> "allow+stricter", knew |-> FALSE]

Plus1(n, max) == IF n < max THEN n + 1 ELSE n

-----------------------------------------------------------------------------
(* The store.  An object nothing points to is garbage: its contents are    *)
(* normalised, as the Go collector would reclaim it.                       *)

InUse(st, pt) == {st[ip] : ip \in IPs} \cup {pt[l] : l \in Learners}

Collected(heap, st, pt) ==
  [q \in ProfileIds |-> IF q \in InUse(st, pt) THEN heap[q] ELSE NewIPProfile]

\* Load(ip) makes q the profile of ip: the stored one or a fresh one.
Loads(ip, q) ==
  \/ store[ip] = q /\ UNCHANGED store
  \/ /\ store[ip] = NoProfile
     /\ q \notin InUse(store, ptr)
     /\ store' = [store EXCEPT ![ip] = q]

\* (mutant: Phase 1 without the read lock)
NeverReadLocked(q) == FALSE

\* Somebody holds q's mutex in read mode across an observable step.
ReadLocked(q) == \E l \in Learners : pc[l] = "bump" /\ ptr[l] = q

GateScore(ip) == IF store[ip] = NoProfile THEN InitialScore ELSE prof[store[ip]].last

EverBlocked(ip) == store[ip] # NoProfile /\ prof[store[ip]].blocked

\* Gatekeeper's recommendation for an anonymous request.
Gatekeeper(ip) ==
  LET d == MakeDecision(GateScore(ip))
  IN  IF EverBlocked(ip) /\ d \in Served THEN "challenge" ELSE d

-----------------------------------------------------------------------------
Init ==
  /\ store    = [ip \in IPs |-> NoProfile]
  /\ prof     = [q \in ProfileIds |-> NewIPProfile]
  /\ pc       = [l \in Learners |-> "idle"]
  /\ ptr      = [l \in Learners |-> NoProfile]
  /\ job      = [l \in Learners |-> NoJob]
  /\ seen     = [l \in Learners |-> NoSeen]
  /\ verdict  = [l \in Learners |-> NoVerdict]

\* GetOrCreateProfile on behalf of the Gatekeeper: it may create a profile.
GatekeeperLoad(ip) ==
  /\ store[ip] = NoProfile
  /\ \E q \in ProfileIds : Loads(ip, q)
  /\ UNCHANGED <<prof, pc, ptr, job, seen, verdict>>

-----------------------------------------------------------------------------
(* A learner goroutine.                                                    *)

Goto(l, here, there) == pc[l] = here /\ pc' = [pc EXCEPT ![l] = there]

\* ProcessEvent or ProcessEventForUser starts: GetOrCreateProfile.
LearnerLoad(l, ip, e) ==
  /\ Goto(l, "idle", "loaded")
  /\ \E q \in ProfileIds : Loads(ip, q) /\ ptr' = [ptr EXCEPT ![l] = q]
  /\ job' = [job EXCEPT ![l] = [ip |-> ip, ev |-> e]]
  /\ UNCHANGED <<prof, seen, verdict>>

Captured(q, attempts) ==
  [attempts |-> attempts, solved |-> prof[q].solved, ewma |-> prof[q].ewma]

\* Phase 1 of an event that is no login POST: read only.
ScoreEvent(l) ==
  /\ Goto(l, "loaded", "scored")
  /\ job[l].ev.form # "login"
  /\ seen' = [seen EXCEPT ![l] = Captured(ptr[l], 0)]
  /\ UNCHANGED <<store, prof, ptr, job, verdict>>

\* Phase 1 of a login POST reads LoginAttempts and captures the rest ...
ReadLoginAttempts(l) ==
  /\ Goto(l, "loaded", "bump")
  /\ job[l].ev.form = "login"
  /\ seen' = [seen EXCEPT ![l] = Captured(ptr[l], prof[ptr[l]].logins)]
  /\ UNCHANGED <<store, prof, ptr, job, verdict>>

\* ... and writes LoginAttempts back, still under the read lock.
BumpLoginAttempts(l) ==
  /\ Goto(l, "bump", "scored")
  /\ prof' = [prof EXCEPT
                ![ptr[l]].logins = Plus1(seen[l].attempts, LoginBan),
                ![ptr[l]].posts  = Plus1(@, LoginBan)]
  /\ UNCHANGED <<store, ptr, job, seen, verdict>>

\* Phase 2 up to makeDecision: the overrides see the profile as it is now.
CheckHardOverrides(l) ==
  /\ Goto(l, "scored", "policy")
  /\ LET p     == prof[ptr[l]]
         e     == job[l].ev
         score == EventScore(HardOverride(p, e.suspicious), e.raw,
                             seen[l].solved, seen[l].ewma)
     IN  verdict' = [verdict EXCEPT ![l] = [score    |-> score,
                                            decision |-> MakeDecision(score),
                                            knew     |-> p.confirmed]]
  /\ UNCHANGED <<store, prof, ptr, job, seen>>

\* The policy layer takes the read lock again.
ApplyPolicyOverrides(l) ==
  /\ Goto(l, "policy", "update")
  /\ verdict' = [verdict EXCEPT ![l].decision =
                   ApplyPolicy(prof[ptr[l]], job[l].ev.recon, @)]
  /\ UNCHANGED <<store, prof, ptr, job, seen>>

\* The goroutine ends and drops its pointer.
Ends(l, heap) ==
  /\ pc'      = [pc EXCEPT ![l] = "idle"]
  /\ ptr'     = [ptr EXCEPT ![l] = NoProfile]
  /\ prof'    = Collected(heap, store, ptr')
  /\ job'     = [job EXCEPT ![l] = NoJob]
  /\ seen'    = [seen EXCEPT ![l] = NoSeen]
  /\ verdict' = [verdict EXCEPT ![l] = NoVerdict]

\* (mutant: only a ban marks the profile as blocked)
UpdatedMarksBansOnly(p, e, v, expired, kept) ==
  [p EXCEPT !.recent = TRUE, !.last = v.score, !.tor = e.tor,
            !.sens = IF e.sens THEN Plus1(@, SensBan) ELSE @,
            !.blocked = @ \/ v.decision = "ban"]

\* IPProfile.Update: solved may have expired, the burst window may have slid.
Updated(p, e, v, expired, kept) ==
  [p EXCEPT
     !.solved     = @ /\ ~expired,
     !.recent     = TRUE,
     !.sens       = IF e.sens THEN Plus1(@, SensBan) ELSE @,
     !.logins     = IF e.passed THEN 0 ELSE @,
     !.posts      = IF e.passed THEN 0 ELSE @,
     !.burst      = Plus1(kept, BurstBan + 1),
     !.countries  = @ \cup {e.country},
     !.tor        = e.tor,
     !.infra      = e.infra,
     !.last       = v.score,
     !.blocked    = @ \/ v.decision \in Rejected]

\* Phase 3, under the write lock.  ProcessEvent ends here; for a user's event
\* ComputeUserTrustScore goes on and keeps the pointer.
UpdateProfile(l) ==
  /\ ~ReadLocked(ptr[l])
  /\ pc[l] = "update"
  /\ \E expired \in BOOLEAN, kept \in 0..prof[ptr[l]].burst :
       LET heap == [prof EXCEPT ![ptr[l]] =
                      Updated(@, job[l].ev, verdict[l], expired, kept)]
       IN  IF job[l].ev.user = NoUser
           THEN Ends(l, heap)
           ELSE /\ pc' = [pc EXCEPT ![l] = "user"]
                /\ prof' = heap
                /\ UNCHANGED <<ptr, job, seen, verdict>>
  /\ UNCHANGED store

ReturnFromUserLayer(l) ==
  /\ pc[l] = "user"
  /\ Ends(l, prof)
  /\ UNCHANGED store

-----------------------------------------------------------------------------
(* The other writers.                                                      *)

\* (mutant: a CRITICAL effect craters the score and forgets WasBlocked)
WithRASPHitUnflagged(p, sev) ==
  IF sev = "critical"
  THEN [p EXCEPT !.hits = AppendHit(@, sev), !.confirmed = TRUE, !.last = 0]
  ELSE [p EXCEPT !.hits = AppendHit(@, sev)]

\* IPProfile.AddRASPHit.
WithRASPHit(p, sev) ==
  IF sev = "critical"
  THEN [p EXCEPT !.hits = AppendHit(@, sev), !.confirmed = TRUE,
                 !.blocked = TRUE, !.last = 0]
  ELSE [p EXCEPT !.hits = AppendHit(@, sev)]

\* A writer that loads ip's profile and changes it under the write lock.
Writes(ip, Change(_)) ==
  /\ \E q \in ProfileIds :
       /\ Loads(ip, q)
       /\ ~ReadLocked(q)
       /\ prof' = [prof EXCEPT ![q] = Change(@)]
  /\ UNCHANGED <<pc, ptr, job, seen, verdict>>

\* ProcessRASPEvent, IP half.
RASPHitIP(ip, sev) == Writes(ip, LAMBDA p : WithRASPHit(p, sev))

\* RecordChallengeSolved, IP half.
ChallengeSolvedIP(ip) == Writes(ip, LAMBDA p : [p EXCEPT !.solved = TRUE])

\* (mutant: the correction is added without clamping it to [0,1])
Unclamped(n) == n

Clamp100(n) == IF n < 0 THEN 0 ELSE IF n > 100 THEN 100 ELSE n

\* FeedbackEngine.Apply, for either layer: a correction of either sign.
Corrected(p, delta) == [p EXCEPT !.ewma = Clamp100(@ + delta)]

Tier1CorrectionIP(ip, delta) == Writes(ip, LAMBDA p : Corrected(p, delta))

-----------------------------------------------------------------------------
(* Time, eviction and the administrator's reset.                           *)

\* An hour passes; no learner lives that long.
HourPasses ==
  /\ \A l \in Learners : pc[l] = "idle"
  /\ prof' = [q \in ProfileIds |-> [prof[q] EXCEPT !.recent = FALSE]]
  /\ UNCHANGED <<store, pc, ptr, job, seen, verdict>>

\* evictLoop deletes a profile not seen for an hour.  A profile no event has
\* updated has LastSeen 0 and goes at the next round.
Evict(ip) ==
  /\ store[ip] # NoProfile
  /\ ~prof[store[ip]].recent
  /\ store' = [store EXCEPT ![ip] = NoProfile]
  /\ prof'  = Collected(prof, store', ptr)
  /\ UNCHANGED <<pc, ptr, job, seen, verdict>>

\* ResetAllData installs empty stores.
ResetAllData ==
  /\ store' = [ip \in IPs |-> NoProfile]
  /\ prof'  = Collected(prof, store', ptr)
  /\ UNCHANGED <<pc, ptr, job, seen, verdict>>

-----------------------------------------------------------------------------
LearnerStep(l) ==
  \/ ScoreEvent(l) \/ ReadLoginAttempts(l) \/ BumpLoginAttempts(l)
  \/ CheckHardOverrides(l) \/ ApplyPolicyOverrides(l) \/ UpdateProfile(l)
  \/ ReturnFromUserLayer(l)

Next ==
  \/ \E ip \in IPs : GatekeeperLoad(ip)
  \/ \E l \in Learners, ip \in IPs, e \in Events : LearnerLoad(l, ip, e)
  \/ \E l \in Learners : LearnerStep(l)
  \/ \E ip \in IPs, sev \in Severity : RASPHitIP(ip, sev)
  \/ \E ip \in IPs : ChallengeSolvedIP(ip)
  \/ \E ip \in IPs, delta \in {-CorrectionDelta, CorrectionDelta} :
       Tier1CorrectionIP(ip, delta)
  \/ HourPasses
  \/ \E ip \in IPs : Evict(ip)
  \/ ResetAllData

Spec == Init /\ [][Next]_ipVars
-----------------------------------------------------------------------------
(* Properties.                                                             *)

\* Every value stays in its range: scores in 0.00..10.00, the Tier 1
\* correction in [0,1], at most MaxRASPHits hits on a profile.
TypeOK ==
  /\ store \in [IPs -> ProfileIds \cup {NoProfile}]
  /\ prof \in [ProfileIds -> Profile]
  /\ \A q \in ProfileIds : Len(prof[q].hits) <= MaxRASPHits
  /\ pc \in [Learners -> LearnerPC]
  /\ ptr \in [Learners -> ProfileIds \cup {NoProfile}]
  /\ job \in [Learners -> Job \cup {NoJob}]
  /\ seen \in [Learners -> Seen]
  /\ verdict \in [Learners -> Verdict]
  /\ \A l \in Learners : pc[l] # "idle" => ptr[l] # NoProfile /\ job[l] # NoJob

\* Whoever the Gatekeeper rejects carries the sticky WasBlocked flag, so that
\* it must pass a challenge once its score recovers: Update and AddRASPHit
\* write PreviousScores and WasBlocked consistently in every interleaving.
RejectedIsFlagged ==
  \A ip \in IPs : Gatekeeper(ip) \in Rejected => EverBlocked(ip)

Exploited(ip) == store[ip] # NoProfile /\ prof[store[ip]].confirmed

\* After a CRITICAL effect no learner, however stale its verdict, gets the IP
\* served unchallenged while the profile lives (AddRASPHit against Update).
ExploitContained == \A ip \in IPs : Exploited(ip) => Gatekeeper(ip) \notin Served

\* A learner that checked the overrides after the CRITICAL effect leaves the
\* IP banned, whatever else happened before its Update (ConfirmedExploit wins
\* over the rest of the ladder, the challenge boost and the policy layer).
LearnedAfterExploitBans ==
  [][\A l \in Learners :
       (pc[l] = "update" /\ pc'[l] # "update" /\ verdict[l].knew)
         => \A ip \in IPs : (store[ip] = ptr[l] /\ store'[ip] = ptr[l])
                              => Gatekeeper(ip)' = "ban"]_ipVars

\* LoginAttempts never exceeds the login POSTs seen since it was last reset:
\* the unlocked increments may lose attempts, they never invent or revive one.
NoPhantomLogins == \A q \in ProfileIds : prof[q].logins <= prof[q].posts

Standings == [ip \in IPs |-> Gatekeeper(ip)]
Flags     == [ip \in IPs |-> EverBlocked(ip)]

\* The detailed engine keeps the promise of Reputation.
Reputation_ == INSTANCE Reputation WITH
  Entities <- IPs, standing <- Standings, flagged <- Flags

RefinesReputation == Reputation_!Spec

-----------------------------------------------------------------------------
(* A claim of the code's comments that does not hold.                      *)

\* rasp.go: a CRITICAL hit makes the Gatekeeper ban "the very next request
\* from this IP".
ExploitBansNextRequest == \A ip \in IPs : Exploited(ip) => Gatekeeper(ip) = "ban"
=============================================================================
