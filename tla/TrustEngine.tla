----------------------------- MODULE TrustEngine -----------------------------
(***************************************************************************)
(* The whole trust engine: the IP layer of IPTrust and the user layer on   *)
(* top of it (user_fusion.go, user_profile.go, user_store.go), with the    *)
(* writers that update an IP profile first and a user profile second       *)
(* (rasp.go, api.go RecordChallengeSolved, tier1_feedback.go, the reset).  *)
(*                                                                         *)
(* ComputeUserTrustScore takes the user's mutex only inside RecordLogin    *)
(* and UpdateEWMA.  Everything else reads and writes the shared profile    *)
(* with no lock at all, so every such access is a step of its own: the     *)
(* corrections and the overrides are read in a step each, an override is   *)
(* stored and then read and written back twice, the score is read back     *)
(* after that, and the sticky flag set in a last step.                     *)
(*                                                                         *)
(* Fields no decision reads are left out (history, counters, the user's    *)
(* own list of RASP hits).  The behaviour penalty and boost of             *)
(* user_behavior.go are inputs.                                            *)
(***************************************************************************)
EXTENDS IPTrust

CONSTANTS
  UserIds,      \* identities of UserTrustProfile objects
  Writers,      \* goroutines that update an IP and then a user profile
  NoTail,       \* a writer with nothing left to do
  NoJA4,        \* the empty fingerprint of a request without the header
  Behaviours    \* <<penalty, boost>> pairs of ScoreUserBehavior, hundredths

UserAssumption ==
  /\ NoProfile \notin UserIds
  /\ Behaviours \subseteq (0..100) \X (0..100)

ASSUME UserConstants == UserAssumption

VARIABLES
  ustore,   \* MemoryUserStore.profiles
  uprof,    \* the contents of each user profile object
  upc,      \* where a learner is in ComputeUserTrustScore
  uptr,     \* the user profile it loaded
  usig,     \* its UserBehaviorSignals
  uval,     \* its raw event score, its override, the score it has read and is to
            \* write back, and its final score
  tail      \* the user half a writer still has to apply

uVars == <<ustore, uprof, upc, uptr, usig, uval>>
vars  == <<ipVars, uVars, tail>>

-----------------------------------------------------------------------------
UserProfile == [score : Score, failed : 0..UserFailBan, everBlocked : BOOLEAN,
                confirmed : BOOLEAN, solved : BOOLEAN, ewma : 0..100,
                countries : SUBSET Countries, ja4s : SUBSET JA4s]

NewUserProfile ==
  [score |-> InitialScore, failed |-> 0, everBlocked |-> FALSE, confirmed |-> FALSE,
   solved |-> FALSE, ewma |-> 50, countries |-> {}, ja4s |-> {}]

\* Where a learner may be in ComputeUserTrustScore: on its way to a judgement, ...
Judging == {"off", "loaded", "recorded", "scored", "boosted", "corrected",
            "not exploited", "not failed", "judged"}

\* ... storing it (an override is assigned, clamped and rounded, a raw score blended),
\* or done with that.
Storing == {"assigned", "clamping", "clamped", "rounding", "blending"}
UserPC  == Judging \cup Storing \cup {"written", "final"}

Signals == [login : BOOLEAN, newCountry : BOOLEAN, newJA4 : BOOLEAN]
UserVal == [raw : Score, override : Score \cup {NoOverride}, seen : Score, final : Score]

NoSignals == [login |-> FALSE, newCountry |-> FALSE, newJA4 |-> FALSE]
NoUserVal == [raw |-> InitialScore, override |-> NoOverride, seen |-> InitialScore,
              final |-> InitialScore]

UserHalf == [op : {"rasp", "solved"}, user : Users]
              \cup [op : {"tier1"}, user : Users, delta : {-CorrectionDelta, CorrectionDelta}]
              \cup [op : {"reset"}]

UserInUse(st, pt) == {st[u] : u \in Users} \cup {pt[l] : l \in Learners}

UserCollected(heap, st, pt) ==
  [v \in UserIds |-> IF v \in UserInUse(st, pt) THEN heap[v] ELSE NewUserProfile]

UserLoads(u, v) ==
  \/ ustore[u] = v /\ UNCHANGED ustore
  \/ /\ ustore[u] = NoProfile
     /\ v \notin UserInUse(ustore, uptr)
     /\ ustore' = [ustore EXCEPT ![u] = v]

\* Nobody is inside UpdateEWMA of profile v, which holds its mutex.
Unlocked(v) == \A l \in Learners : uptr[l] = v => upc[l] # "blending"

UserStanding(u) == IF ustore[u] = NoProfile THEN NewUserProfile ELSE uprof[ustore[u]]

\* (mutant: the user's flag replaces the address's instead of adding to it)
GatekeeperForUserOnly(ip, u) ==
  IF u = NoUser THEN Gatekeeper(ip)
  ELSE LET d == MakeDecision(UserStanding(u).score)
       IN  IF UserStanding(u).everBlocked /\ d \in Served THEN "challenge" ELSE d

\* Gatekeeper's recommendation for a request of user u from ip: the score is
\* the user's alone, the sticky flag either one's.
GatekeeperFor(ip, u) ==
  IF u = NoUser THEN Gatekeeper(ip)
  ELSE LET d == MakeDecision(UserStanding(u).score)
       IN  IF (EverBlocked(ip) \/ UserStanding(u).everBlocked) /\ d \in Served
           THEN "challenge" ELSE d

-----------------------------------------------------------------------------
UserInit ==
  /\ ustore = [u \in Users |-> NoProfile]
  /\ uprof  = [v \in UserIds |-> NewUserProfile]
  /\ upc    = [l \in Learners |-> "off"]
  /\ uptr   = [l \in Learners |-> NoProfile]
  /\ usig   = [l \in Learners |-> NoSignals]
  /\ uval   = [l \in Learners |-> NoUserVal]
  /\ tail   = [w \in Writers |-> NoTail]

EngineInit == Init /\ UserInit

\* The user half of GetGatekeeperProfiles.
GatekeeperUserLoad(u) ==
  /\ ustore[u] = NoProfile
  /\ \E v \in UserIds : UserLoads(u, v)
  /\ UNCHANGED <<ipVars, uprof, upc, uptr, usig, uval, tail>>

-----------------------------------------------------------------------------
(* ComputeUserTrustScore after its call of ComputeTrustScore.              *)

UserGoto(l, here, there) ==
  pc[l] = "user" /\ upc[l] = here /\ upc' = [upc EXCEPT ![l] = there]

\* The store's Load and the first of the signals, IsNewCountry.
UserLoad(l) ==
  /\ UserGoto(l, "off", "loaded")
  /\ \E v \in UserIds :
       /\ UserLoads(job[l].ev.user, v)
       /\ uptr' = [uptr EXCEPT ![l] = v]
       /\ usig' = [usig EXCEPT ![l] =
                     [login      |-> job[l].ev.form # "none",
                      newCountry |-> job[l].ev.country \notin uprof[v].countries,
                      newJA4     |-> FALSE]]
  /\ UNCHANGED <<ipVars, uprof, uval, tail>>

Recorded(u, e) ==
  IF e.ok
  THEN [u EXCEPT !.countries = @ \cup {e.country},
                 !.ja4s      = @ \cup ({e.ja4} \ {NoJA4})]
  ELSE [u EXCEPT !.failed = Plus1(@, UserFailBan)]

\* The last signal, IsNewJA4, then RecordLogin before the event is scored.
RecordLogin(l) ==
  /\ UserGoto(l, "loaded", "recorded")
  /\ Unlocked(uptr[l])
  /\ usig' = [usig EXCEPT ![l].newJA4 = job[l].ev.ja4 \notin uprof[uptr[l]].ja4s]
  /\ uprof' = IF usig[l].login
              THEN [uprof EXCEPT ![uptr[l]] = Recorded(@, job[l].ev)]
              ELSE uprof
  /\ UNCHANGED <<ipVars, ustore, uptr, uval, tail>>

UserRawIs(l, s) == uval' = [uval EXCEPT ![l].raw = s]

\* The raw event score; a challenge solved too long ago is forgotten.
ScoreUser(l) ==
  /\ UserGoto(l, "recorded", "scored")
  /\ \E b \in Behaviours : UserRawIs(l, UserRaw(verdict[l].score, b[1], b[2]))
  /\ \E expired \in BOOLEAN :
       uprof' = [uprof EXCEPT ![uptr[l]].solved = @ /\ ~expired]
  /\ UNCHANGED <<ipVars, ustore, uptr, usig, tail>>

\* The boost of a challenge solved, by the address or by the user.
BoostUser(l) ==
  /\ UserGoto(l, "scored", "boosted")
  /\ UserRawIs(l, IF prof[ptr[l]].solved \/ uprof[uptr[l]].solved
                  THEN ClampScore(uval[l].raw + 15) ELSE uval[l].raw)
  /\ UNCHANGED <<ipVars, ustore, uprof, uptr, usig, tail>>

\* The Tier 1 delta.
CorrectUser(l) ==
  /\ UserGoto(l, "boosted", "corrected")
  /\ UserRawIs(l, ClampScore(uval[l].raw + Tier1Delta(uprof[uptr[l]].ewma)))
  /\ UNCHANGED <<ipVars, ustore, uprof, uptr, usig, tail>>

-----------------------------------------------------------------------------
(* checkUserHardOverrides: one check after the other, until one applies    *)
(* and replaces the raw score.                                             *)

Judge(l, here, override, there) ==
  /\ UserGoto(l, here, IF override = NoOverride THEN there ELSE "judged")
  /\ uval' = [uval EXCEPT ![l].override = override,
                          ![l].raw = IF override = NoOverride THEN @ ELSE override]
  /\ UNCHANGED <<ipVars, ustore, uprof, uptr, usig, tail>>

CheckExploit(l) ==
  Judge(l, "corrected", IF uprof[uptr[l]].confirmed THEN 0 ELSE NoOverride, "not exploited")

CheckFailures(l) ==
  Judge(l, "not exploited",
        IF uprof[uptr[l]].failed >= UserFailBan                THEN 50
        ELSE IF verdict[l].decision = "ban" /\ usig[l].login   THEN 0
        ELSE NoOverride, "not failed")

CheckNewDevice(l) ==
  Judge(l, "not failed",
        IF uprof[uptr[l]].everBlocked /\ usig[l].newCountry /\ usig[l].newJA4
        THEN 50 ELSE NoOverride, "judged")

-----------------------------------------------------------------------------
(* The new score: an override is stored directly, a raw score blended.     *)

StoreOverride(l) ==
  /\ UserGoto(l, "judged", "assigned")
  /\ uval[l].override # NoOverride
  /\ uprof' = [uprof EXCEPT ![uptr[l]].score = uval[l].override]
  /\ UNCHANGED <<ipVars, ustore, uptr, usig, uval, tail>>

\* The stored score is clamped, and then rounded, by two more statements that read
\* it and write it back: a score of the model, or what others stored, stays what it is.
ReadBack(l) ==
  /\ UserGoto(l, "assigned", "clamping") \/ UserGoto(l, "clamped", "rounding")
  /\ uval' = [uval EXCEPT ![l].seen = uprof[uptr[l]].score]
  /\ UNCHANGED <<ipVars, ustore, uprof, uptr, usig, tail>>

WriteBack(l) ==
  /\ UserGoto(l, "clamping", "clamped") \/ UserGoto(l, "rounding", "written")
  /\ uprof' = [uprof EXCEPT ![uptr[l]].score = uval[l].seen]
  /\ uval' = [uval EXCEPT ![l].seen = InitialScore]
  /\ UNCHANGED <<ipVars, ustore, uptr, usig, tail>>

\* UpdateEWMA holds the user's mutex from its first read of the score to its last
\* write, which keeps out other blends and the writers below, but no override.
BeginBlend(l) ==
  /\ UserGoto(l, "judged", "blending")
  /\ uval[l].override = NoOverride /\ Unlocked(uptr[l])
  /\ uval' = [uval EXCEPT ![l].seen = uprof[uptr[l]].score]
  /\ UNCHANGED <<ipVars, ustore, uprof, uptr, usig, tail>>

EndBlend(l) ==
  /\ UserGoto(l, "blending", "written")
  /\ \E s \in EWMA(uval[l].raw, uval[l].seen) : uprof' = [uprof EXCEPT ![uptr[l]].score = s]
  /\ uval' = [uval EXCEPT ![l].seen = InitialScore]
  /\ UNCHANGED <<ipVars, ustore, uptr, usig, tail>>

\* finalScore is what the profile holds by now.
ReadFinalScore(l) ==
  /\ UserGoto(l, "written", "final")
  /\ uval' = [uval EXCEPT ![l].final = uprof[uptr[l]].score]
  /\ UNCHANGED <<ipVars, ustore, uprof, uptr, usig, tail>>

\* The decision on the event, after the policy layer.
UserDecision(l) ==
  ApplyUserPolicy(uprof[uptr[l]], usig[l], verdict[l].decision,
                  MakeDecision(uval[l].final))

\* The sticky flag is set and the learner ends.
FlagUser(l) ==
  /\ UserGoto(l, "final", "off")
  /\ ReturnFromUserLayer(l)
  /\ uptr' = [uptr EXCEPT ![l] = NoProfile]
  /\ uprof' = UserCollected(
                [uprof EXCEPT ![uptr[l]].everBlocked = @ \/ UserDecision(l) \in Rejected],
                ustore, uptr')
  /\ usig' = [usig EXCEPT ![l] = NoSignals]
  /\ uval' = [uval EXCEPT ![l] = NoUserVal]
  /\ UNCHANGED <<ustore, tail>>

-----------------------------------------------------------------------------
(* The writers: the IP half first, the user half some time later.          *)

Continue(w, u, t) ==
  /\ tail[w] = NoTail
  /\ tail' = [tail EXCEPT ![w] = IF u = NoUser THEN NoTail ELSE t]
  /\ UNCHANGED uVars

ProcessRASPEvent(w, ip, u, sev) ==
  /\ RASPHitIP(ip, sev)
  /\ Continue(w, IF sev = "critical" THEN u ELSE NoUser, [op |-> "rasp", user |-> u])

RecordChallengeSolved(w, ip, u) ==
  ChallengeSolvedIP(ip) /\ Continue(w, u, [op |-> "solved", user |-> u])

ApplyFeedback(w, ip, u, delta) ==
  /\ Tier1CorrectionIP(ip, delta)
  /\ Continue(w, u, [op |-> "tier1", user |-> u, delta |-> delta])

ResetIPStore(w) ==
  /\ ResetAllData
  /\ tail[w] = NoTail
  /\ tail' = [tail EXCEPT ![w] = [op |-> "reset"]]
  /\ UNCHANGED uVars

UserRASPHit(u) == [u EXCEPT !.confirmed = TRUE, !.everBlocked = TRUE, !.score = 0]

\* Writer w applies its user half Change to the profile of its user.
FinishWith(w, op, Change(_)) ==
  /\ tail[w] # NoTail /\ tail[w].op = op
  /\ \E v \in UserIds :
       UserLoads(tail[w].user, v) /\ Unlocked(v) /\ uprof' = [uprof EXCEPT ![v] = Change(@)]
  /\ tail' = [tail EXCEPT ![w] = NoTail]
  /\ UNCHANGED <<ipVars, upc, uptr, usig, uval>>

RASPHitUser(w) == FinishWith(w, "rasp", UserRASPHit)

ChallengeSolvedUser(w) == FinishWith(w, "solved", LAMBDA u : [u EXCEPT !.solved = TRUE])

Tier1CorrectionUser(w) ==
  FinishWith(w, "tier1", LAMBDA u : Corrected(u, tail[w].delta))

ResetUserStore(w) ==
  /\ tail[w] # NoTail /\ tail[w].op = "reset"
  /\ ustore' = [u \in Users |-> NoProfile]
  /\ uprof' = UserCollected(uprof, ustore', uptr)
  /\ tail' = [tail EXCEPT ![w] = NoTail]
  /\ UNCHANGED <<ipVars, upc, uptr, usig, uval>>

-----------------------------------------------------------------------------
IPLayerStep(l) ==
  \/ ScoreEvent(l) \/ ReadLoginAttempts(l) \/ BumpLoginAttempts(l)
  \/ CheckHardOverrides(l) \/ ApplyPolicyOverrides(l) \/ UpdateProfile(l)

UserLayerStep(l) ==
  \/ UserLoad(l) \/ RecordLogin(l) \/ ScoreUser(l) \/ BoostUser(l) \/ CorrectUser(l)
  \/ CheckExploit(l) \/ CheckFailures(l) \/ CheckNewDevice(l)
  \/ StoreOverride(l) \/ ReadBack(l) \/ WriteBack(l) \/ BeginBlend(l) \/ EndBlend(l)
  \/ ReadFinalScore(l) \/ FlagUser(l)

EngineLearnerStep(l) ==
  \/ IPLayerStep(l) /\ UNCHANGED <<uVars, tail>>
  \/ UserLayerStep(l)

FinishTail(w) ==
  \/ RASPHitUser(w) \/ ChallengeSolvedUser(w) \/ Tier1CorrectionUser(w)
  \/ ResetUserStore(w)

Background ==
  \/ /\ \/ \E ip \in IPs : GatekeeperLoad(ip) \/ Evict(ip)
        \/ HourPasses
     /\ UNCHANGED <<uVars, tail>>
  \/ \E u \in Users : GatekeeperUserLoad(u)

StartLearner(l, ip, e) == LearnerLoad(l, ip, e) /\ UNCHANGED <<uVars, tail>>

StartWriter(w) ==
  \/ \E ip \in IPs, u \in Users \cup {NoUser} :
       \/ \E sev \in Severity : ProcessRASPEvent(w, ip, u, sev)
       \/ RecordChallengeSolved(w, ip, u)
       \/ \E delta \in {-CorrectionDelta, CorrectionDelta} : ApplyFeedback(w, ip, u, delta)
  \/ ResetIPStore(w)

EngineNext ==
  \/ \E l \in Learners, ip \in IPs, e \in Events : StartLearner(l, ip, e)
  \/ \E l \in Learners : EngineLearnerStep(l)
  \/ \E w \in Writers : StartWriter(w) \/ FinishTail(w)
  \/ Background

EngineSpec == EngineInit /\ [][EngineNext]_vars
-----------------------------------------------------------------------------
(* Properties.                                                             *)

\* The IP layer's type invariant and that of the user layer: user scores stay
\* in 0.00..10.00 through every blend, override and correction.
EngineTypeOK ==
  /\ TypeOK
  /\ ustore \in [Users -> UserIds \cup {NoProfile}]
  /\ uprof \in [UserIds -> UserProfile]
  /\ upc \in [Learners -> UserPC]
  /\ uptr \in [Learners -> UserIds \cup {NoProfile}]
  /\ usig \in [Learners -> Signals]
  /\ uval \in [Learners -> UserVal]
  /\ tail \in [Writers -> UserHalf \cup {NoTail}]
  /\ \A l \in Learners : upc[l] # "off" => pc[l] = "user" /\ uptr[l] # NoProfile

\* A CRITICAL effect keeps the address from being served unchallenged to
\* anybody, and the account from anywhere: the user's good score replaces the
\* address's in Gatekeeper, its flag does not, and no blend of a learner that
\* was already running lifts the account's flag.
ExploitContainedForAll ==
  \A ip \in IPs, u \in Users \cup {NoUser} :
    (Exploited(ip) \/ (u # NoUser /\ UserStanding(u).confirmed))
      => GatekeeperFor(ip, u) \notin Served

Settled(v) == \A l \in Learners : uptr[l] # v

\* Once the learners of a user are done, a score in the block or ban band
\* carries the sticky flag.  The flag is set from the score read back after
\* the write, possibly another learner's; the last of them sees the last one.
SettledUserIsFlagged ==
  \A u \in Users :
    (ustore[u] # NoProfile /\ Settled(ustore[u])
       /\ MakeDecision(UserStanding(u).score) \in Rejected)
      => UserStanding(u).everBlocked

\* user_profile.go: "A single bad event doesn't destroy a long-trusted user
\* instantly".  Without a hard override, whatever the corrections and whatever others
\* store meanwhile, the score a learner writes is one band at most below the one it read.
SingleEventInertia ==
  [][\A l \in Learners, v \in UserIds :
       (upc[l] = "blending" /\ upc'[l] = "written" /\ uptr[l] = v)
         => Strictness(MakeDecision(uprof'[v].score))
              <= Strictness(MakeDecision(uval[l].seen)) + 1]_vars
=============================================================================
