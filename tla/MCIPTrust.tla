----------------------------- MODULE MCIPTrust -----------------------------
(***************************************************************************)
(* A small instance of IPTrust for TLC.  The profile's history has no      *)
(* natural end, so the run bounds how often the environment acts: events   *)
(* learned, RASP hits, and the rarer interventions (a solved challenge, a  *)
(* Tier 1 correction, an hour of silence, a reset).                        *)
(***************************************************************************)
EXTENDS IPTrust, TLC

CONSTANTS MaxEvents, MaxHits, MaxInterventions

VARIABLE spent

\* A clean page view from an ordinary network.
Plain == [form |-> "none", ok |-> TRUE, sens |-> FALSE, passed |-> FALSE,
          tor |-> FALSE, infra |-> FALSE, country |-> CHOOSE c \in Countries : TRUE,
          ja4 |-> CHOOSE j \in JA4s : TRUE, user |-> NoUser,
          raw |-> 900, suspicious |-> FALSE, recon |-> FALSE]

FailedLogin == [Plain EXCEPT !.form = "login", !.ok = FALSE]
TorProbe    == [Plain EXCEPT !.sens = TRUE, !.tor = TRUE, !.suspicious = TRUE,
                             !.recon = TRUE, !.raw = 880]
CookieVisit == [Plain EXCEPT !.passed = TRUE, !.infra = TRUE,
                             !.user = CHOOSE u \in Users : TRUE]

MCEvents == {FailedLogin, TorProbe, CookieVisit}

MCSymmetry == Permutations(ProfileIds) \cup Permutations(Learners)

Spend(what, max) == spent[what] < max /\ spent' = [spent EXCEPT ![what] = @ + 1]

MCInit == Init /\ spent = [events |-> 0, hits |-> 0, others |-> 0]

MCNext ==
  \/ (\E ip \in IPs : GatekeeperLoad(ip)) /\ UNCHANGED spent
  \/ /\ \E l \in Learners, ip \in IPs, e \in Events : LearnerLoad(l, ip, e)
     /\ Spend("events", MaxEvents)
  \/ (\E l \in Learners : LearnerStep(l)) /\ UNCHANGED spent
  \/ (\E ip \in IPs, sev \in Severity : RASPHitIP(ip, sev)) /\ Spend("hits", MaxHits)
  \/ /\ \/ \E ip \in IPs : ChallengeSolvedIP(ip)
        \/ \E ip \in IPs, delta \in {-CorrectionDelta, CorrectionDelta} :
             Tier1CorrectionIP(ip, delta)
        \/ HourPasses
        \/ ResetAllData
     /\ Spend("others", MaxInterventions)
  \/ (\E ip \in IPs : Evict(ip)) /\ UNCHANGED spent

MCSpec == MCInit /\ [][MCNext]_<<ipVars, spent>>
=============================================================================
