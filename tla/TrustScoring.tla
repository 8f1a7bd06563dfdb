---------------------------- MODULE TrustScoring ----------------------------
(***************************************************************************)
(* The pure decision logic of the trust engine (trustscore/fusion.go,      *)
(* user_fusion.go, rasp.go, user_profile.go): from a profile and the       *)
(* verdict of the detection modules to a score and a decision.             *)
(*                                                                         *)
(* A score is an integer number of hundredths, 0..1000 for the code's      *)
(* 0.00..10.00: every score the code stores was rounded to two decimals.   *)
(* The weighted sum of the nine detection modules is the "raw" score; it   *)
(* is an input here.  The thresholds of the override ladder are constants, *)
(* so that small instances exercise every rung; each states the code's     *)
(* value.                                                                  *)
(***************************************************************************)
EXTENDS Integers, Sequences, FiniteSets

CONSTANTS
  LoginBlock,       \* failed-login count that forces "block"     (8)
  LoginBan,         \* failed-login count that forces "ban"       (40)
  SensBlock,        \* sensitive-path hits that force "block"     (3)
  SensBan,          \* sensitive-path hits that force "ban"       (8)
  MaxCountries,     \* more countries than this force "block"     (2)
  BurstChallenge,   \* more requests/s than this force "challenge" (15)
  BurstBan,         \* more requests/s than this force "ban"      (50)
  UserFailBan,      \* lifetime failed logins that crush a user   (20)
  MaxRASPHits       \* RASP hits a profile remembers              (100)

ThresholdAssumption ==
  /\ LoginBlock \in Nat /\ LoginBan \in Nat /\ 0 < LoginBlock /\ LoginBlock < LoginBan
  /\ SensBlock \in Nat /\ SensBan \in Nat /\ 1 < SensBlock /\ SensBlock < SensBan
  /\ MaxCountries \in Nat
  /\ BurstChallenge \in Nat /\ BurstBan \in Nat /\ BurstChallenge < BurstBan
  /\ UserFailBan \in Nat \ {0}
  /\ MaxRASPHits \in Nat \ {0}

ASSUME Thresholds == ThresholdAssumption

-----------------------------------------------------------------------------
Score     == 0..1000
NoOverride == -1                      \* the nil *float64 of the override checks
InitialScore == 750                   \* 7.5, the score of an unknown entity

Decisions == {"allow", "allow+stricter", "challenge", "block", "ban"}
Served    == {"allow", "allow+stricter"}   \* reaches the backend unchallenged
Rejected  == {"block", "ban"}              \* answered 403 by the proxy

\* Decisions from the most lenient to the strictest.
Strictness(d) ==
  CASE d = "allow" -> 0 [] d = "allow+stricter" -> 1 [] d = "challenge" -> 2
    [] d = "block" -> 3 [] d = "ban" -> 4

MakeDecision(s) ==
  CASE s >= 800             -> "allow"
    [] s >= 500 /\ s < 800  -> "allow+stricter"
    [] s >= 300 /\ s < 500  -> "challenge"
    [] s >= 100 /\ s < 300  -> "block"
    [] s < 100              -> "ban"

ClampScore(s) == IF s < 0 THEN 0 ELSE IF s > 1000 THEN 1000 ELSE s

-----------------------------------------------------------------------------
(* RASP hits: only "high" and "critical" matter to an override, "low"      *)
(* stands for low and medium.                                              *)

Severity == {"low", "high", "critical"}

AppendHit(hits, sev) ==
  Append(IF Len(hits) >= MaxRASPHits THEN Tail(hits) ELSE hits, sev)

HasHit(hits, sev) == \E i \in DOMAIN hits : hits[i] = sev

MaxSeverityIsHigh(hits) == HasHit(hits, "high") /\ ~HasHit(hits, "critical")

-----------------------------------------------------------------------------
(* The IP layer.  p is a profile, suspicious says that some sub-score is   *)
(* above 0.5, recon that the recon sub-score is positive.                  *)

\* (mutant: the Tor rung ahead of the RASP rungs)
HardOverrideTorFirst(p, suspicious) ==
  IF p.tor /\ suspicious                       THEN 400
  ELSE IF p.confirmed                          THEN 0
  ELSE NoOverride

\* The first rung that applies decides, whatever the later ones would say.
HardOverride(p, suspicious) ==
  IF p.confirmed                               THEN 0
  ELSE IF MaxSeverityIsHigh(p.hits)            THEN 200
  ELSE IF p.tor /\ suspicious                  THEN 400
  ELSE IF p.logins >= LoginBan                 THEN 0
  ELSE IF p.logins >= LoginBlock               THEN 200
  ELSE IF p.sens >= SensBan                    THEN 0
  ELSE IF p.sens >= SensBlock                  THEN 200
  ELSE IF p.sens >= 1                          THEN 400
  ELSE IF Cardinality(p.countries) > MaxCountries THEN 200
  ELSE IF p.burst > BurstBan                   THEN 0
  ELSE IF p.burst > BurstChallenge             THEN 400
  ELSE NoOverride

\* EWMAScore (hundredths, 50 neutral) mapped to +-3.00 points.
Tier1Delta(ewma) == (ewma - 50) * 6

\* The challenge boost is added even to an override; the Tier 1 delta is not.
EventScore(override, raw, solved, ewma) ==
  LET base    == IF override # NoOverride THEN override ELSE raw
      boosted == IF solved THEN ClampScore(base + 15) ELSE base
  IN  IF override # NoOverride THEN boosted
                               ELSE ClampScore(boosted + Tier1Delta(ewma))

\* (mutant: the Tor branch forgets to look at the decision it escalates)
ApplyPolicyUnguarded(p, recon, d) ==
  IF p.infra /\ p.sens > 0 /\ d = "allow" THEN "allow+stricter"
  ELSE IF p.tor /\ recon                  THEN "challenge"
  ELSE d

ApplyPolicy(p, recon, d) ==
  IF p.infra /\ p.sens > 0 /\ d = "allow" THEN "allow+stricter"
  ELSE IF p.tor /\ recon /\ d \in Served  THEN "challenge"
  ELSE d

-----------------------------------------------------------------------------
(* The user layer.  u is a user profile, s the behaviour signals of the    *)
(* event, ipDecision what the IP layer decided for the same event.         *)

\* (mutant: the last escalation forgets to look at the decision it escalates)
ApplyUserPolicyUnguarded(u, s, ipDecision, d) ==
  IF s.login /\ s.newCountry /\ u.countries # {} /\ d = "allow" THEN "allow+stricter"
  ELSE IF u.everBlocked /\ s.newJA4 /\ d \in Served             THEN "challenge"
  ELSE IF ipDecision \in Rejected                                THEN "challenge"
  ELSE d

ApplyUserPolicy(u, s, ipDecision, d) ==
  IF s.login /\ s.newCountry /\ u.countries # {} /\ d = "allow" THEN "allow+stricter"
  ELSE IF u.everBlocked /\ s.newJA4 /\ d \in Served             THEN "challenge"
  ELSE IF ipDecision \in Rejected /\ d \in Served               THEN "challenge"
  ELSE d

\* What UpdateEWMA may make of a stored score: 0.15*raw + 0.85*score to the
\* nearest hundredth.  The model's raw score is itself a whole number of
\* hundredths, half a hundredth off the code's at most, hence the 7.5 more.
BlendsTo(raw, score, new) ==
  LET exact == 15 * raw + 85 * score
  IN  100 * new - exact \in -58..58

\* (mutant: the weights the wrong way round)
EWMASwapped(raw, score) == {new \in Score : BlendsTo(score, raw, new)}

EWMA(raw, score) == {new \in Score : BlendsTo(raw, score, new)}

\* The raw event score of a user before it is corrected: IP risk weighs 0.4, the
\* behaviour penalty 0.6 and the boost -0.3 (both in hundredths).
UserRaw(ipScore, penalty, boost) ==
  1000 - ClampScore(((1000 - ipScore) * 2) \div 5 + 6 * penalty - 3 * boost)
=============================================================================
