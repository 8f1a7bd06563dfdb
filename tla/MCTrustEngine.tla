--------------------------- MODULE MCTrustEngine ---------------------------
(***************************************************************************)
(* A small instance of TrustEngine for TLC: one address, one account, two  *)
(* learners and one other writer.  As in MCIPTrust the run bounds how      *)
(* often the environment acts.                                             *)
(***************************************************************************)
EXTENDS TrustEngine, TLC

CONSTANTS MaxEvents, MaxWrites

VARIABLE spent

Country == CHOOSE c \in Countries : TRUE
User    == CHOOSE u \in Users : TRUE

\* A failed login, and a good page view that moves the account's score up.
FailedLogin == [form |-> "login", ok |-> FALSE, sens |-> FALSE, passed |-> FALSE,
                tor |-> FALSE, infra |-> FALSE, country |-> Country, ja4 |-> NoJA4,
                user |-> User, raw |-> 900, suspicious |-> FALSE, recon |-> FALSE]
GoodLogin   == [FailedLogin EXCEPT !.ok = TRUE]
Visit       == [GoodLogin EXCEPT !.form = "none"]

MCEvents == {FailedLogin, GoodLogin, Visit}

\* No penalty with a full boost, or the maximal penalty with none.
MCBehaviours == {<<0, 100>>, <<100, 0>>}

MCSymmetry == Permutations(ProfileIds) \cup Permutations(UserIds)
                \cup Permutations(Learners)

Spend(what, max) == spent[what] < max /\ spent' = [spent EXCEPT ![what] = @ + 1]

\* Bounds: learners go through the IP layer one at a time, and writers have a user half
\* to do; MCIPTrust interleaves learners in the IP layer and has the other writers.

MCInit == EngineInit /\ spent = [events |-> 0, writes |-> 0]

MCNext ==
  \/ /\ \A l \in Learners : pc[l] \in {"idle", "user"}
     /\ \E l \in Learners, ip \in IPs, e \in Events : StartLearner(l, ip, e)
     /\ Spend("events", MaxEvents)
  \/ (\E l \in Learners : EngineLearnerStep(l)) /\ UNCHANGED spent
  \/ /\ Background \/ \E w \in Writers : StartWriter(w) /\ tail'[w] # NoTail
     /\ Spend("writes", MaxWrites)
  \/ (\E w \in Writers : FinishTail(w)) /\ UNCHANGED spent

MCSpec == MCInit /\ [][MCNext]_<<vars, spent>>
=============================================================================
